---- MODULE Spec2Model ----
(***************************************************************************)
(* A model of oauthdoctor: the OAuth2 flow simulators of package oauth     *)
(* (installed-app, web and service-account), the error classifier, the     *)
(* diagnose / reconnect recovery step, the local callback listener of the  *)
(* web flow, and the config writer of package diag as far as the flows     *)
(* call it.  Texts are TLA+ strings; substring search, prefix tests and    *)
(* replacement work on their characters as package strings does.           *)
(***************************************************************************)
EXTENDS Naturals, Sequences, FiniteSets, TLC

VARIABLES
    oauthType,      \* Config.OAuthType
    verbose,        \* Config.Verbose
    customerID,     \* Config.CustomerID
    keys,           \* Config.ConfigFile.ConfigKeys (the in-memory credentials)
    lang,           \* Config.ConfigFile.Lang
    file,           \* the config file on disk: whether it is there, and its text
    backups,        \* backup files on disk: <<timestamp, text>>
    now,            \* the wall clock, in seconds
    tokenValid,     \* whether the OAuth server accepts the stored refresh token
    pc,             \* the position of the foreground goroutine
    attempt,        \* number of connection attempts started so far
    accountInfo,    \* local accountInfo of the flow (NoBuf when nil)
    err,            \* local err of the flow (NoErr when nil)
    refreshToken,   \* local refreshToken of simulateAppFlow
    strategy,       \* the branch reconnect took ("" before reconnect)
    code,           \* the authorization code the foreground holds
    minted,         \* refresh tokens returned by code exchanges of this run
    out,            \* what was written to the log and to stdout, in order
    diagnoses,      \* number of diagnose calls
    registered,     \* whether serverHandler is registered on the default mux
    srv,            \* state of the current http.Server
    started,        \* number of servers started by runServer
    handlers,       \* the serverHandler goroutines, one per callback request
    chClosed,       \* whether authCode has been closed
    sent,           \* the codes whose send on authCode completed, in order
    received,       \* the codes the foreground received from authCode, in order
    writes,         \* the ReplaceConfig calls made, as <<key, value>>, in order
    requests,       \* the account requests made with getAccount, in order
    text,           \* ClassifySpec: the error text under classification
    kind,           \* ClassifySpec: << >>, then <<the result of decodeError>>
    rw,             \* RewriteSpec: language, key, value, and the text before and
                    \* after each ReplaceConfigFromReader call
    rc,             \* PatchSpec: the ReplaceConfig call under way, step by step
    rd              \* ReadSpec: the lines read by ReadCustomerID and its result

vars == << oauthType, verbose, customerID, keys, lang, file, backups, now,
           tokenValid, pc, attempt, accountInfo, err, refreshToken, strategy,
           code, minted, out, diagnoses, registered, srv, started, handlers,
           chClosed, sent, received, writes, requests, text, kind, rw, rc,
           rd >>

flowVars == << oauthType, verbose, customerID, keys, lang, file, backups, now,
               tokenValid, pc, attempt, accountInfo, err, refreshToken,
               strategy, code, minted, out, diagnoses, registered, srv,
               started, handlers, chClosed, sent, received, writes,
               requests >>

(***************************************************************************)
(* Package strings.                                                        *)
(***************************************************************************)

\* strings.Contains(s, m)
Contains(s, m) ==
    \E i \in 1..(Len(s) + 1) :
        /\ i + Len(m) - 1 <= Len(s)
        /\ SubSeq(s, i, i + Len(m) - 1) = m

\* strings.HasPrefix(s, p)
HasPrefix(s, p) == Len(p) <= Len(s) /\ SubSeq(s, 1, Len(p)) = p

(***************************************************************************)
(* The error kinds (helper.go, const block).                               *)
(***************************************************************************)
AccessNotPermittedForManagerAccount == 0
GoogleAdsAPIDisabled == 1
InvalidClientInfo == 2
InvalidRefreshToken == 3
InvalidCustomerID == 4
MissingDevToken == 5
Unauthenticated == 6
Unauthorized == 7
UnknownError == 8

\* The markers decodeError looks for.
MInvalidClient == "invalid_client"
MUnauthorizedClient == "unauthorized_client"
MInvalidGrant == "invalid_grant"
MTokenNotSet == "refresh token is not set"
MUserPermissionDenied == "USER_PERMISSION_DENIED"
MPermissionDenied == "\"PERMISSION_DENIED\""
MUnauthenticated == "UNAUTHENTICATED"
MManagerAccount == "CANNOT_BE_EXECUTED_BY_MANAGER_ACCOUNT"
MDevTokenMissing == "DEVELOPER_TOKEN_PARAMETER_MISSING"
MInvalidCustomerID == "INVALID_CUSTOMER_ID"

\* A plausible slip: the "PERMISSION_DENIED" test placed before the
\* USER_PERMISSION_DENIED one and written without its quotes.
decodeErrorUnquotedFirst(errstr) ==
    IF Contains(errstr, MInvalidClient) THEN InvalidClientInfo
    ELSE IF Contains(errstr, MUnauthorizedClient) THEN Unauthorized
    ELSE IF Contains(errstr, MInvalidGrant) THEN InvalidRefreshToken
    ELSE IF Contains(errstr, MTokenNotSet) THEN InvalidRefreshToken
    ELSE IF Contains(errstr, "PERMISSION_DENIED") THEN GoogleAdsAPIDisabled
    ELSE IF Contains(errstr, MUserPermissionDenied) THEN InvalidRefreshToken
    ELSE IF Contains(errstr, MUnauthenticated) THEN Unauthenticated
    ELSE IF Contains(errstr, MManagerAccount) THEN AccessNotPermittedForManagerAccount
    ELSE IF Contains(errstr, MDevTokenMissing) THEN MissingDevToken
    ELSE IF Contains(errstr, MInvalidCustomerID) THEN InvalidCustomerID
    ELSE UnknownError

\* decodeError: the first marker found, in the order of the if chain.
decodeError(errstr) ==
    IF Contains(errstr, MInvalidClient) THEN InvalidClientInfo
    ELSE IF Contains(errstr, MUnauthorizedClient) THEN Unauthorized
    ELSE IF Contains(errstr, MInvalidGrant) THEN InvalidRefreshToken
    ELSE IF Contains(errstr, MTokenNotSet) THEN InvalidRefreshToken
    ELSE IF Contains(errstr, MUserPermissionDenied) THEN InvalidRefreshToken
    ELSE IF Contains(errstr, MPermissionDenied) THEN GoogleAdsAPIDisabled
    ELSE IF Contains(errstr, MUnauthenticated) THEN Unauthenticated
    ELSE IF Contains(errstr, MManagerAccount) THEN AccessNotPermittedForManagerAccount
    ELSE IF Contains(errstr, MDevTokenMissing) THEN MissingDevToken
    ELSE IF Contains(errstr, MInvalidCustomerID) THEN InvalidCustomerID
    ELSE UnknownError

(***************************************************************************)
(* Package strings, as package diag uses it on config lines.               *)
(***************************************************************************)
IsSpace(c) == c \in {" ", "\t", "\n", "\r"}

RECURSIVE TrimLeft(_)
TrimLeft(s) ==
    IF Len(s) > 0 /\ IsSpace(SubSeq(s, 1, 1))
    THEN TrimLeft(SubSeq(s, 2, Len(s)))
    ELSE s

RECURSIVE TrimRight(_)
TrimRight(s) ==
    IF Len(s) > 0 /\ IsSpace(SubSeq(s, Len(s), Len(s)))
    THEN TrimRight(SubSeq(s, 1, Len(s) - 1))
    ELSE s

\* strings.TrimSpace(s)
TrimSpace(s) == TrimRight(TrimLeft(s))

\* strings.ReplaceAll(s, old, "") for a one-character old; the text is
\* halved at each step, which keeps the evaluation shallow
RECURSIVE RemoveAll(_, _)
RemoveAll(s, c) ==
    IF Len(s) = 0 THEN ""
    ELSE IF Len(s) = 1 THEN (IF s = c THEN "" ELSE s)
    ELSE RemoveAll(SubSeq(s, 1, Len(s) \div 2), c)
         \o RemoveAll(SubSeq(s, Len(s) \div 2 + 1, Len(s)), c)

(***************************************************************************)
(* Package diag: the language table and the config writer.                 *)
(***************************************************************************)
DevToken == "DevToken"
ClientID == "ClientID"
ClientSecret == "ClientSecret"
RefreshToken == "RefreshToken"
LoginCustomerID == "LoginCustomerID"

Langs == {"java", "dotnet", "php", "python", "ruby"}

Languages ==
    [l \in Langs |->
        CASE l = "java" ->
               [LeftMeta |-> "#", RightMeta |-> "", Separator |-> "=",
                Cfg |-> [ClientID |-> "api.googleads.clientId",
                         ClientSecret |-> "api.googleads.clientSecret",
                         DevToken |-> "api.googleads.developerToken",
                         RefreshToken |-> "api.googleads.refreshToken",
                         LoginCustomerID |-> "api.googleads.loginCustomerId"]]
          [] l = "dotnet" ->
               [LeftMeta |-> "<!--", RightMeta |-> "-->", Separator |-> "",
                Cfg |-> [ClientID |-> "OAuth2ClientId",
                         ClientSecret |-> "OAuth2ClientSecret",
                         DevToken |-> "DeveloperToken",
                         RefreshToken |-> "OAuth2RefreshToken",
                         LoginCustomerID |-> "LoginCustomerId"]]
          [] l = "php" ->
               [LeftMeta |-> ";", RightMeta |-> "", Separator |-> "=",
                Cfg |-> [ClientID |-> "clientId",
                         ClientSecret |-> "clientSecret",
                         DevToken |-> "developerToken",
                         RefreshToken |-> "refreshToken",
                         LoginCustomerID |-> "loginCustomerId"]]
          [] l = "python" ->
               [LeftMeta |-> "#", RightMeta |-> "", Separator |-> ":",
                Cfg |-> [ClientID |-> "client_id",
                         ClientSecret |-> "client_secret",
                         DevToken |-> "developer_token",
                         RefreshToken |-> "refresh_token",
                         LoginCustomerID |-> "login_customer_id"]]
          [] l = "ruby" ->
               [LeftMeta |-> "#", RightMeta |-> "", Separator |-> "=",
                Cfg |-> [ClientID |-> "c.client_id",
                         ClientSecret |-> "c.client_secret",
                         DevToken |-> "c.developer_token",
                         RefreshToken |-> "c.refresh_token",
                         LoginCustomerID |-> "c.login_customer_id"]]]

\* ConfigFile.GetConfigKeysInLang
GetConfigKeysInLang(l, key) == Languages[l].Cfg[key]

\* SetConfigKeys that leaves the in-memory keys as they are
SetConfigKeysDropped(ks, k, v) == ks

\* ConfigFile.SetConfigKeys
SetConfigKeys(ks, k, v) == [ks EXCEPT ![k] = v]

\* configLineStr with a space after the separator in every language
configLineStrSpaced(l, key, value) ==
    LET separator == Languages[l].Separator
        field == GetConfigKeysInLang(l, key)
        line == CASE l = "java" -> field \o separator \o " " \o value
                  [] l = "php" -> field \o separator \o " \"" \o value \o "\""
                  [] l = "ruby" -> field \o separator \o " \"" \o value \o "\""
                  [] l = "python" -> field \o separator \o " " \o value
                  [] l = "dotnet" -> "<add key=\"" \o field \o "\" value=\"" \o value \o "\"/>"
    IN  line \o "\n"

\* ConfigFile.configLineStr
configLineStr(l, key, value) ==
    LET separator == Languages[l].Separator
        field == GetConfigKeysInLang(l, key)
        line == CASE l = "java" -> field \o separator \o value
                  [] l = "php" -> field \o separator \o " \"" \o value \o "\""
                  [] l = "ruby" -> field \o separator \o " \"" \o value \o "\""
                  [] l = "python" -> field \o separator \o value
                  [] l = "dotnet" -> "<add key=\"" \o field \o "\" value=\"" \o value \o "\"/>"
    IN  line \o "\n"

\* The pieces of s between its newlines: one more than it has newlines.
RECURSIVE Split(_)
Split(s) ==
    LET nl == {i \in 1..Len(s) : SubSeq(s, i, i) = "\n"}
    IN  IF nl = {} THEN << s >>
        ELSE LET i == CHOOSE x \in nl : \A y \in nl : x <= y
             IN  << SubSeq(s, 1, i - 1) >> \o Split(SubSeq(s, i + 1, Len(s)))

\* bufio.ScanLines without the line's end: a trailing \r is dropped
DropCR(t) ==
    IF Len(t) > 0 /\ SubSeq(t, Len(t), Len(t)) = "\r"
    THEN SubSeq(t, 1, Len(t) - 1) ELSE t

\* The tokens scanner.Scan() / scanner.Text() yield for the reader's
\* text: its lines without their ends, the last one also when no newline
\* ends it, and no token for the empty rest after the last newline.
ScanLines(s) ==
    LET p == Split(s)
        n == IF p[Len(p)] = "" THEN Len(p) - 1 ELSE Len(p)
    IN  [i \in 1..n |-> DropCR(p[i])]

\* ScanStep that drops the line holding the key
ScanStepOverwrite(l, key, value, i, t) ==
    LET comment == Languages[l]
        line == t \o "\n"
        trimmedLine == TrimSpace(line)
        langKey == GetConfigKeysInLang(l, key)
        isComment == HasPrefix(trimmedLine, comment.LeftMeta)
        first == IF ~isComment /\ Contains(trimmedLine, langKey)
                 THEN ""
                 ELSE line
        insert ==
            CASE l = "dotnet" -> ~isComment /\ Contains(trimmedLine, "<GoogleAdsApi>")
              [] l = "php" ->
                   /\ ~isComment
                   /\ \/ key = DevToken /\ Contains(trimmedLine, "[GOOGLE_ADS]")
                      \/ Contains(trimmedLine, "[OAUTH2]")
              [] l = "ruby" ->
                   ~isComment /\ Contains(trimmedLine, "Google::Ads::GoogleAds::Config.new")
              [] OTHER -> i = 0
    IN  IF insert THEN first \o configLineStr(l, key, value) ELSE first

\* ScanStep that writes the new line before the line
ScanStepInsertBefore(l, key, value, i, t) ==
    LET comment == Languages[l]
        line == t \o "\n"
        trimmedLine == TrimSpace(line)
        langKey == GetConfigKeysInLang(l, key)
        isComment == HasPrefix(trimmedLine, comment.LeftMeta)
        first == IF ~isComment /\ Contains(trimmedLine, langKey)
                 THEN comment.LeftMeta \o trimmedLine \o comment.RightMeta \o "\n"
                 ELSE line
        insert ==
            CASE l = "dotnet" -> ~isComment /\ Contains(trimmedLine, "<GoogleAdsApi>")
              [] l = "php" ->
                   /\ ~isComment
                   /\ \/ key = DevToken /\ Contains(trimmedLine, "[GOOGLE_ADS]")
                      \/ Contains(trimmedLine, "[OAUTH2]")
              [] l = "ruby" ->
                   ~isComment /\ Contains(trimmedLine, "Google::Ads::GoogleAds::Config.new")
              [] OTHER -> i = 0
    IN  IF insert THEN configLineStr(l, key, value) \o first ELSE first

\* ScanStep with the new line after every line in java and python, not only
\* after the first.
ScanStepInsertEvery(l, key, value, i, t) ==
    LET comment == Languages[l]
        line == t \o "\n"
        trimmedLine == TrimSpace(line)
        langKey == GetConfigKeysInLang(l, key)
        isComment == HasPrefix(trimmedLine, comment.LeftMeta)
        first == IF ~isComment /\ Contains(trimmedLine, langKey)
                 THEN comment.LeftMeta \o trimmedLine \o comment.RightMeta \o "\n"
                 ELSE line
        insert ==
            CASE l = "dotnet" -> ~isComment /\ Contains(trimmedLine, "<GoogleAdsApi>")
              [] l = "php" ->
                   /\ ~isComment
                   /\ \/ key = DevToken /\ Contains(trimmedLine, "[GOOGLE_ADS]")
                      \/ Contains(trimmedLine, "[OAUTH2]")
              [] l = "ruby" ->
                   ~isComment /\ Contains(trimmedLine, "Google::Ads::GoogleAds::Config.new")
              [] OTHER -> TRUE
    IN  IF insert THEN first \o configLineStr(l, key, value) ELSE first

\* What one iteration of the scanner loop of ReplaceConfigFromReader writes
\* to buf for token number i (from 0) with text t: the line, commented out
\* when it holds the key, then the new line where the language wants it.
ScanStep(l, key, value, i, t) ==
    LET comment == Languages[l]
        line == t \o "\n"
        trimmedLine == TrimSpace(line)
        langKey == GetConfigKeysInLang(l, key)
        isComment == HasPrefix(trimmedLine, comment.LeftMeta)
        first == IF ~isComment /\ Contains(trimmedLine, langKey)
                 THEN comment.LeftMeta \o trimmedLine \o comment.RightMeta \o "\n"
                 ELSE line
        insert ==
            CASE l = "dotnet" -> ~isComment /\ Contains(trimmedLine, "<GoogleAdsApi>")
              [] l = "php" ->
                   /\ ~isComment
                   /\ \/ key = DevToken /\ Contains(trimmedLine, "[GOOGLE_ADS]")
                      \/ Contains(trimmedLine, "[OAUTH2]")
              [] l = "ruby" ->
                   ~isComment /\ Contains(trimmedLine, "Google::Ads::GoogleAds::Config.new")
              [] OTHER -> i = 0
    IN  IF insert THEN first \o configLineStr(l, key, value) ELSE first

\* The scanner loop from token number i on
RECURSIVE ScanFrom(_, _, _, _, _)
ScanFrom(l, key, value, lines, i) ==
    IF i >= Len(lines) THEN ""
    ELSE ScanStep(l, key, value, i, lines[i + 1])
         \o ScanFrom(l, key, value, lines, i + 1)

\* ConfigFile.ReplaceConfigFromReader(key, value, r) for the reader's text:
\* buf.String()
ReplaceConfigFromReader(l, key, value, s) == ScanFrom(l, key, value, ScanLines(s), 0)

\* ConfigFile.ReplaceConfig(key, value) at clock reading t, with the
\* filesystem step that fails (fail = "none" when none does): the in-memory
\* keys, the config file, the backups, what is logged, and whether
\* log.Fatalf ended the run.
ReplaceConfig(ks, l, f, bk, key, value, t, fail) ==
    LET ks2 == SetConfigKeys(ks, key, value)
        newConfig == ReplaceConfigFromReader(l, key, value, f.text)
        renamed == {b \in bk : b[1] # t} \cup {<< t, f.text >>}
    IN  IF fail = "temp"
        THEN [keys |-> ks2, file |-> f, backups |-> bk, fatal |-> TRUE,
              logs |-> << [e |-> "log", v |-> "ERROR: Problem creating temp file" ] >>]
        ELSE IF ~f.present \/ fail = "open"
        THEN [keys |-> ks2, file |-> f, backups |-> bk, fatal |-> TRUE,
              logs |-> << [e |-> "log", v |-> "ERROR: Problem opening config file" ] >>]
        ELSE IF fail = "write"
        THEN [keys |-> ks2, file |-> f, backups |-> bk, fatal |-> TRUE,
              logs |-> << [e |-> "log", v |-> "ERROR: Cannot write to temp config file" ] >>]
        ELSE IF fail = "rename1"
        THEN [keys |-> ks2, file |-> f, backups |-> bk, fatal |-> TRUE,
              logs |-> << [e |-> "log", v |-> "Backing up config file" ],
                          [e |-> "log", v |-> "ERROR: Cannot rename config file" ] >>]
        ELSE IF fail = "rename2"
        THEN [keys |-> ks2, file |-> [present |-> FALSE, text |-> ""],
              backups |-> renamed, fatal |-> TRUE,
              logs |-> << [e |-> "log", v |-> "Backing up config file" ],
                          [e |-> "log", v |-> "Creating a new config file" ],
                          [e |-> "log", v |-> "ERROR: Cannot rename config file" ] >>]
        ELSE [keys |-> ks2, file |-> [present |-> TRUE, text |-> newConfig],
              backups |-> renamed, fatal |-> FALSE,
              logs |-> << [e |-> "log", v |-> "Backing up config file" ],
                          [e |-> "log", v |-> "Creating a new config file" ] >>]

FsFailures == {"none", "temp", "open", "write", "rename1", "rename2"}

\* strings.Index(s, m), counted from 1: 0 when m is not in s
Index(s, m) ==
    IF ~Contains(s, m) THEN 0
    ELSE CHOOSE i \in 1..(Len(s) + 1) :
            /\ i + Len(m) - 1 <= Len(s)
            /\ SubSeq(s, i, i + Len(m) - 1) = m
            /\ \A j \in 1..(i - 1) : SubSeq(s, j, j + Len(m) - 1) # m

\* The characters of the class [\w\-\./_]
ValueChars ==
    {"a", "b", "c", "d", "e", "f", "g", "h", "i", "j", "k", "l", "m", "n", "o", "p",
     "q", "r", "s", "t", "u", "v", "w", "x", "y", "z",
     "A", "B", "C", "D", "E", "F", "G", "H", "I", "J", "K", "L", "M", "N", "O", "P",
     "Q", "R", "S", "T", "U", "V", "W", "X", "Y", "Z",
     "0", "1", "2", "3", "4", "5", "6", "7", "8", "9", "_", "-", ".", "/"}

\* findFirstValue(k): the first match of [\w\-\./_]+ in k, the trimmed k
\* when there is none
findFirstValue(k) ==
    LET at(i) == SubSeq(k, i, i)
        starts == {i \in 1..Len(k) : at(i) \in ValueChars}
    IN  IF starts = {} THEN TrimSpace(k)
        ELSE LET b == CHOOSE i \in starts : \A j \in starts : i <= j
                 e == CHOOSE i \in b..Len(k) :
                         /\ \A j \in b..i : at(j) \in ValueChars
                         /\ i = Len(k) \/ at(i + 1) \notin ValueChars
             IN  SubSeq(k, b, e)

\* parseKeyValueLine(c, line): << key, value >>, or << >> for the error
parseKeyValueLine(l, line) ==
    LET separator == Languages[l].Separator
        idx == Index(line, separator)
    IN  IF idx >= 1 /\ Len(TrimSpace(SubSeq(line, 1, idx - 1))) > 0
        THEN << TrimSpace(SubSeq(line, 1, idx - 1)),
                findFirstValue(SubSeq(line, idx + 1, Len(line))) >>
        ELSE << >>

\* The scanner loop of ParseKeyValueFile over the file's text: the pairs it
\* puts into keyValue, in the order of the lines.
KeyValuePairs(l, s) ==
    LET lines == ScanLines(s)
        parsed == [i \in 1..Len(lines) |->
                      LET line == TrimSpace(lines[i])
                      IN  IF HasPrefix(line, Languages[l].LeftMeta) THEN << >>
                          ELSE IF Contains(line, Languages[l].Separator)
                          THEN parseKeyValueLine(l, line)
                          ELSE << >>]
    IN  SelectSeq(parsed, LAMBDA x : x # << >>)

\* ParseKeyValueFile(lang, filepath) for the file's text, for one key: the
\* value UpdateConfigKeys sets, << >> when the key is not in keyValue (the
\* field keeps its zero value).  A later line for a key replaces an earlier
\* one in the map.
ParseKeyValueFile(l, key, s) ==
    LET pairs == KeyValuePairs(l, s)
        hits == {i \in 1..Len(pairs) : pairs[i][1] = GetConfigKeysInLang(l, key)}
    IN  IF hits = {} THEN << >>
        ELSE << pairs[CHOOSE i \in hits : \A j \in hits : j <= i][2] >>

(***************************************************************************)
(* encoding/json, as far as getAccount and diagnose use it: Unmarshal into *)
(* a map[string]interface{}.  The documents the model exchanges are built  *)
(* by JSONObject from their decoded form, so decoding is a table lookup.   *)
(***************************************************************************)
JNil == [t |-> "nil"]
JInvalid == [t |-> "invalid"]
JStr(v) == [t |-> "string", s |-> v]
JObj(m) == [t |-> "object", m |-> m]

\* the JSON string literal of s, without the enclosing quotes
RECURSIVE JSONEscape(_)
JSONEscape(s) ==
    IF Len(s) = 0 THEN ""
    ELSE IF Len(s) = 1
    THEN (IF s = "\"" THEN "\\\"" ELSE IF s = "\\" THEN "\\\\" ELSE s)
    ELSE JSONEscape(SubSeq(s, 1, Len(s) \div 2))
         \o JSONEscape(SubSeq(s, Len(s) \div 2 + 1, Len(s)))

\* {"error": "<msg>"}
ErrorStringDoc(msg) == "{\"error\": \"" \o JSONEscape(msg) \o "\"}"

\* {"error": {"message": "<msg>", "status": "<status>"}}
ErrorObjectDoc(msg, status) ==
    "{\"error\": {\"message\": \"" \o JSONEscape(msg) \o "\", \"status\": \""
        \o JSONEscape(status) \o "\"}}"

\* {"error": {"status": "<status>"}}
ErrorNoMessageDoc(status) ==
    "{\"error\": {\"status\": \"" \o JSONEscape(status) \o "\"}}"

AccountDoc == "{\"resourceName\": \"customers/1234567890\", \"id\": \"1234567890\"}"
NoErrorDoc == "{\"code\": 401}"
PlainBody == "OK"

ApiMessage == "Request had invalid authentication credentials."

\* The error strings an API response carries in its top-level error field.
ErrorStrings ==
    { "This is an error",
      "USER_PERMISSION_DENIED",
      "status: \"PERMISSION_DENIED\"",
      "UNAUTHENTICATED",
      "CANNOT_BE_EXECUTED_BY_MANAGER_ACCOUNT",
      "DEVELOPER_TOKEN_PARAMETER_MISSING",
      "INVALID_CUSTOMER_ID",
      ErrorObjectDoc(ApiMessage, "UNAUTHENTICATED"),
      ErrorNoMessageDoc("UNAUTHENTICATED"),
      NoErrorDoc }

JSONTable ==
    { << ErrorStringDoc(e), JObj([error |-> JStr(e)]) >> : e \in ErrorStrings }
    \cup
    { << AccountDoc, JObj([resourceName |-> JStr("customers/1234567890"),
                           id |-> JStr("1234567890")]) >>,
      << ErrorObjectDoc(ApiMessage, "UNAUTHENTICATED"),
         JObj([error |-> JObj([message |-> JStr(ApiMessage),
                               status |-> JStr("UNAUTHENTICATED")])]) >>,
      << ErrorNoMessageDoc("UNAUTHENTICATED"),
         JObj([error |-> JObj([status |-> JStr("UNAUTHENTICATED")])]) >>,
      << ErrorObjectDoc(ApiMessage, "PERMISSION_DENIED"),
         JObj([error |-> JObj([message |-> JStr(ApiMessage),
                               status |-> JStr("PERMISSION_DENIED")])]) >>,
      << NoErrorDoc, JObj([code |-> [t |-> "number"]]) >> }

\* json.Unmarshal(text, &map): the decoded object, JInvalid on an error
jsonUnmarshal(s) ==
    IF \E p \in JSONTable : p[1] = s
    THEN (CHOOSE p \in JSONTable : p[1] = s)[2]
    ELSE JInvalid

\* m[k] of a decoded map; nil for a missing key and for a nil map
Field(v, k) ==
    IF v.t = "object" /\ k \in DOMAIN v.m THEN v.m[k] ELSE JNil

(***************************************************************************)
(* getAccount and the responses of the OAuth server and of the API.        *)
(***************************************************************************)
apiURL == "https://googleads.googleapis.com/v5/customers/"

NoErr == << >>
NoBuf == << >>

Transport(e) == [k |-> "transport", text |-> e]
HTTP(code_, statusText, body) ==
    [k |-> "http", status |-> code_, statusText |-> statusText, body |-> body]

\* getAccount(client) for the response resp of client.Do: the buffer, the
\* error, and whether the type assertion on jsonBody["error"] panicked.
getAccount(resp, cid) ==
    IF resp.k = "transport"
    THEN [buf |-> NoBuf, err |-> << resp.text >>, panic |-> FALSE]
    ELSE LET jsonBody == jsonUnmarshal(resp.body)
             e == Field(jsonBody, "error")
         IN  IF resp.status # 200
             THEN [buf |-> NoBuf,
                   err |-> << "A HTTP Status (" \o resp.statusText
                              \o ") is returned while calling " \o apiURL \o cid >>,
                   panic |-> FALSE]
             ELSE IF e.t = "nil"
             THEN [buf |-> << resp.body >>, err |-> NoErr, panic |-> FALSE]
             ELSE IF e.t = "string"
             THEN [buf |-> NoBuf, err |-> << e.s >>, panic |-> FALSE]
             ELSE [buf |-> NoBuf, err |-> NoErr, panic |-> TRUE]

\* Errors of the oauth2 transport.
ErrTokenNotSet == "oauth2: token expired and refresh token is not set"
ErrInvalidClient == "oauth2: cannot fetch token: 401 Unauthorized\nResponse: {\"error\": \"invalid_client\"}"
ErrUnauthorizedClient == "oauth2: cannot fetch token: 401 Unauthorized\nResponse: {\"error\": \"unauthorized_client\"}"
ErrInvalidGrant == "oauth2: cannot fetch token: 400 Bad Request\nResponse: {\"error\": \"invalid_grant\"}"
ErrNetwork == "dial tcp: connect: connection refused"

TokenErrors == {ErrInvalidClient, ErrUnauthorizedClient, ErrInvalidGrant}

\* What the API answers once the request carries an access token.
ApiResponses ==
    { HTTP(200, "200 OK", b) :
        b \in {AccountDoc, PlainBody, ErrorObjectDoc(ApiMessage, "UNAUTHENTICATED")}
              \cup {ErrorStringDoc(e) : e \in ErrorStrings} }
    \cup { HTTP(403, "403 Forbidden", ErrorObjectDoc(ApiMessage, "PERMISSION_DENIED")),
           Transport(ErrNetwork) }

InitClientID == "old-id.apps.googleusercontent.com"
InitClientSecret == "old-secret"

\* Responses to a request made with the stored refresh token: without a
\* token the transport fails before any request; a token the server rejects
\* yields a token error; after the client ID or secret was replaced the
\* server may decide either way.
RefreshResponses(ks, valid) ==
    IF ks.RefreshToken = "" THEN {Transport(ErrTokenNotSet)}
    ELSE IF ks.ClientID # InitClientID \/ ks.ClientSecret # InitClientSecret
    THEN ApiResponses \cup {Transport(e) : e \in TokenErrors}
    ELSE IF valid THEN ApiResponses
    ELSE {Transport(e) : e \in TokenErrors}

(***************************************************************************)
(* The terminal: what the run writes (log.Print, fmt.Print) and what the   *)
(* operator types (readStdin), in order.                                   *)
(***************************************************************************)
Log(v) == [e |-> "log", v |-> v]
Stdout(v) == [e |-> "stdout", v |-> v]
Stdin(v) == [e |-> "stdin", v |-> v]

MsgSuccess == "SUCCESS: OAuth test passed with given config file settings."
MsgFailed == "ERROR: OAuth test failed."
MsgRegenerate == "Attempting to regenerate refresh token..."
MsgVisitURL == "Visit the URL for the auth dialog:"
MsgRunServer == "Running HTTP server in the background at port 8080..."
MsgAskReplace == "Would you like to replace your refresh token in the client library config file with the new one generated?"
MsgNotReplaced == "Refresh token is NOT replaced"
MsgEnterCID == "Please enter a Google Ads account ID:"
MsgRequest == "Making a HTTP Request to Google Ads API:"
MsgCodeReceived == "OAuth code received by the HTTP server handler: "
MsgAck == "Auth code received"

Count(seq, x) == Cardinality({i \in DOMAIN seq : seq[i] = x})

(***************************************************************************)
(* Bounds of the model and the inputs drawn from the environment.          *)
(***************************************************************************)
MaxRequests == 2        \* callback requests the browser makes in one run
MaxClock == 1           \* seconds the clock can advance during one run
MaxEmptyLines == 1      \* empty lines the operator enters at one prompt
MaxFrags == 2           \* fragments an error text is made of (ClassifySpec)
MaxLines == 3           \* lines of a text under rewrite (RewriteSpec)
MaxRewrites == 2        \* ReplaceConfigFromReader calls in a row (RewriteSpec)
MaxCalls == 2           \* ReplaceConfig calls in a row (PatchSpec)
MaxTurns == 3           \* lines the operator enters at the prompt of ReadCustomerID (ReadSpec)

Web == "web"
InstalledApp == "installed_app"
ServiceAccount == "service_account"

StoredToken == "1//stored-refresh-token"
NewToken == "1//new-refresh-token"

Codes == {"", "4/code-a", "4/code-b"}
Answers == {"Y", "y", "N", ""}
CidLines == {"", "987-654-3210"}
CredLines == {"", "new-id.apps.googleusercontent.com"}

InitFile(l, ks) ==
    LET dev == configLineStr(l, DevToken, ks.DevToken)
        tok == IF ks.RefreshToken = "" THEN ""
               ELSE "  " \o configLineStr(l, RefreshToken, ks.RefreshToken)
    IN  CASE l = "java" -> dev \o tok
          [] l = "dotnet" -> "<GoogleAdsApi>\n" \o "  " \o dev \o tok \o "</GoogleAdsApi>\n"
          [] l = "php" -> "[GOOGLE_ADS]\n" \o dev \o "[OAUTH2]\n" \o tok
          [] l = "python" -> dev \o tok
          [] l = "ruby" -> "Google::Ads::GoogleAds::Config.new do |c|\n" \o "  " \o dev
                           \o tok \o "end\n"

\* The languages the flows are run with: one with a one-sided comment mark
\* and a first-line insertion, one with a two-sided mark and an anchor.
FlowLangs == {"python", "dotnet"}

\* The run is over: the flow returned, or the process was ended by a failed
\* type assertion in diagnose or getAccount, or by log.Fatal in oauth2Client
\* or ReplaceConfig.
Terminal == {"done", "panic_diagnose", "panic_getAccount", "fatal_exchange",
             "fatal_config"}

NoHandler == [st |-> "none", code |-> ""]

FlowInit ==
    /\ oauthType \in {Web, InstalledApp, ServiceAccount}
    /\ verbose \in BOOLEAN
    /\ customerID = "1234567890"
    /\ \E rt \in {"", StoredToken} :
          keys = [ClientID |-> InitClientID, ClientSecret |-> InitClientSecret,
                  DevToken |-> "dev", RefreshToken |-> rt, LoginCustomerID |-> ""]
    /\ tokenValid \in BOOLEAN
    /\ keys.RefreshToken = "" => ~tokenValid
    /\ lang \in FlowLangs
    /\ file = [present |-> TRUE, text |-> InitFile(lang, keys)]
    /\ backups = {}
    /\ now = 0
    /\ pc = "start"
    /\ attempt = 0
    /\ accountInfo = NoBuf
    /\ err = NoErr
    /\ refreshToken = ""
    /\ strategy = ""
    /\ code = ""
    /\ minted = << >>
    /\ out = << >>
    /\ diagnoses = 0
    /\ registered = FALSE
    /\ srv = "none"
    /\ started = 0
    /\ handlers = [i \in 1..MaxRequests |-> NoHandler]
    /\ chClosed = FALSE
    /\ sent = << >>
    /\ received = << >>
    /\ writes = << >>
    /\ requests = << >>

Init ==
    FlowInit /\ text = "" /\ kind = << >> /\ rw = << >> /\ rc = << >> /\ rd = << >>

constVars == << oauthType, verbose, lang, tokenValid, text, kind, rw, rc, rd >>
webVars == << registered, srv, started, handlers, chClosed, sent, received >>
diskVars == << keys, file, backups, now, writes >>

\* Config.SimulateOAuthFlow
SimulateOAuthFlow ==
    /\ pc = "start"
    /\ pc' = CASE oauthType = Web -> "web_register"
               [] oauthType = InstalledApp -> "app_connect"
               [] oauthType = ServiceAccount -> "svc_connect"
    /\ UNCHANGED << constVars, requests, webVars, diskVars, customerID, attempt,
                    accountInfo, err, refreshToken, strategy, code, minted,
                    out, diagnoses >>

\* The lines getAccount logs before the request when Verbose is set.
RequestDump == IF verbose THEN << Log(MsgRequest) >> ELSE << >>

\* The request getAccount sends: the URL, the headers, and the credential
\* the client obtains its access token with.
Request(via) ==
    [url |-> apiURL \o customerID, devToken |-> keys.DevToken,
     loginCustomerID |-> keys.LoginCustomerID, via |-> via]

\* The client of connectWithRefreshToken
RefreshClient ==
    << "refresh_token", keys.ClientID, keys.ClientSecret, keys.RefreshToken >>

\* The client oauth2Client makes from the exchanged code c
CodeClient(c) == << "code", keys.ClientID, keys.ClientSecret, c >>

\* The client of the service-account flow
JWTClient == << "jwt" >>

\* A call c.getAccount(client) answered by resp: sets accountInfo and err,
\* and moves on to okpc, to errpc on an error; logerr says whether the
\* caller logs the error when Verbose is set.
CallGetAccount(via, resp, okpc, errpc, logerr) ==
    LET r == getAccount(resp, customerID)
    IN  /\ requests' = Append(requests, Request(via))
        /\ accountInfo' = r.buf
        /\ err' = r.err
        /\ pc' = IF r.panic THEN "panic_getAccount"
                 ELSE IF r.err = NoErr THEN okpc ELSE errpc
        /\ out' = out \o RequestDump
                      \o (IF ~r.panic /\ r.err # NoErr /\ logerr /\ verbose
                          THEN << Log(r.err[1]) >> ELSE << >>)

(***************************************************************************)
(* diagnose and the credential dialogs.                                    *)
(***************************************************************************)

\* The state after a ReplaceConfig call with result r, the terminal
\* showing o before the call's own lines; the run goes on at nextpc unless
\* the call was fatal.
AfterReplaceConfig(r, key, value, t, o, nextpc) ==
    /\ keys' = r.keys
    /\ file' = r.file
    /\ backups' = r.backups
    /\ now' = t
    /\ writes' = Append(writes, << key, value >>)
    /\ out' = o \o r.logs
    /\ pc' = IF r.fatal THEN "fatal_config" ELSE nextpc

\* replaceCloudCredentials(&c.ConfigFile), the terminal showing o so far
replaceCloudCredentials(o, nextpc) ==
    \E clientID \in CredLines, clientSecret \in CredLines :
      \E t1 \in now..MaxClock, f1 \in FsFailures :
        LET o1 == o \o << Log("Follow this guide to setup your OAuth2 client ID and client secret: "
                              \o "https://developers.google.com/adwords/api/docs/guides/first-api-call#set_up_oauth2_authentication"),
                          Stdout("New Client ID >> "), Stdin(clientID),
                          Stdout("New Client Secret >> "), Stdin(clientSecret) >>
            r1 == ReplaceConfig(keys, lang, file, backups, ClientID, clientID, t1, f1)
        IN  IF r1.fatal
            THEN AfterReplaceConfig(r1, ClientID, clientID, t1, o1, nextpc)
            ELSE \E t2 \in t1..MaxClock, f2 \in FsFailures :
                   LET r2 == ReplaceConfig(r1.keys, lang, r1.file, r1.backups,
                                           ClientSecret, clientSecret, t2, f2)
                   IN  /\ keys' = r2.keys
                       /\ file' = r2.file
                       /\ backups' = r2.backups
                       /\ now' = t2
                       /\ writes' = writes \o << << ClientID, clientID >>,
                                                 << ClientSecret, clientSecret >> >>
                       /\ out' = o1 \o r1.logs \o r2.logs
                       /\ pc' = IF r2.fatal THEN "fatal_config" ELSE nextpc

\* replaceDevToken(&c.ConfigFile), the terminal showing o so far
replaceDevToken(o, nextpc) ==
    \E devToken \in CredLines, t \in now..MaxClock, f \in FsFailures :
        AfterReplaceConfig(
            ReplaceConfig(keys, lang, file, backups, DevToken, devToken, t, f),
            DevToken, devToken, t,
            o \o << Log("Please follow this guide to retrieve your developer token: "
                        \o "https://developers.google.com/adwords/api/docs/guides/signup#step-2"),
                    Log("Pleae enter a new Developer Token here and it will replace the one in your client library configuration file"),
                    Stdout("New Developer Token >> "), Stdin(devToken) >>,
            nextpc)

\* The lines diagnose prints for the kinds that need no dialog.
Advice(k) ==
    CASE k = AccessNotPermittedForManagerAccount ->
           << Log("ERROR: Your credentials are not permitted to access to a manager account."
                  \o "\nPlease create your credentials with a Google Ads account with manager access.") >>
      [] k = GoogleAdsAPIDisabled ->
           << Log("Press <Enter> to continue after you enable Google Ads API"), Stdin("") >>
      [] k \in {InvalidRefreshToken, Unauthorized} ->
           << Log("ERROR: Your refresh token may be invalid.") >>
      [] k = Unauthenticated ->
           << Log("ERROR: The login email may not have access to the given account.") >>
      [] k = InvalidCustomerID ->
           << Log("ERROR: You customer ID is invalid.") >>
      [] OTHER ->
           << Log("ERROR: Your credentials are invalid but we cannot determine the exact error. "
                  \o (CASE oauthType = ServiceAccount ->
                             "Please verify the path of JSON key file and impersonate email (or delegated email)."
                        [] oauthType = Web ->
                             "Please verify your developer token, client ID and client secret."
                        [] oauthType = InstalledApp ->
                             "Please verify your developer token, client ID, client secret and refresh token.")) >>

\* Whether the type assertions diagnose makes on the decoded error panic.
diagnosePanics(errstr) ==
    LET parsedMsg == jsonUnmarshal(errstr)
        e == Field(parsedMsg, "error")
    IN  /\ parsedMsg.t = "object"
        /\ \/ e.t # "object"
           \/ Field(e, "message").t # "string"

\* diagnose that also drops the stored refresh token when it is told the
\* token may be invalid
diagnoseClearsToken(nextpc) ==
    LET errstr == err[1]
        parsedMsg == jsonUnmarshal(errstr)
        jsonLog == IF parsedMsg.t = "object"
                   THEN << Log("JSON response error: "
                               \o Field(Field(parsedMsg, "error"), "message").s) >>
                   ELSE << >>
        k == decodeError(errstr)
    IN  /\ diagnoses' = diagnoses + 1
        /\ IF diagnosePanics(errstr)
           THEN /\ pc' = "panic_diagnose"
                /\ out' = out
                /\ UNCHANGED diskVars
           ELSE IF k = InvalidClientInfo
           THEN replaceCloudCredentials(
                    out \o jsonLog
                        \o << Log("ERROR: Your client ID and/or client secret may be invalid.") >>,
                    nextpc)
           ELSE IF k = MissingDevToken
           THEN replaceDevToken(
                    out \o jsonLog
                        \o << Log("ERROR: Your developer token is missing in the configuration file") >>,
                    nextpc)
           ELSE /\ pc' = nextpc
                /\ out' = out \o jsonLog \o Advice(k)
                /\ keys' = IF k \in {InvalidRefreshToken, Unauthorized}
                           THEN [keys EXCEPT !.RefreshToken = ""] ELSE keys
                /\ UNCHANGED << file, backups, now, writes >>

\* c.diagnose(err); the run goes on at nextpc
diagnose(nextpc) ==
    LET errstr == err[1]
        parsedMsg == jsonUnmarshal(errstr)
        jsonLog == IF parsedMsg.t = "object"
                   THEN << Log("JSON response error: "
                               \o Field(Field(parsedMsg, "error"), "message").s) >>
                   ELSE << >>
        k == decodeError(errstr)
    IN  /\ diagnoses' = diagnoses + 1
        /\ IF diagnosePanics(errstr)
           THEN /\ pc' = "panic_diagnose"
                /\ out' = out
                /\ UNCHANGED diskVars
           ELSE IF k = InvalidClientInfo
           THEN replaceCloudCredentials(
                    out \o jsonLog
                        \o << Log("ERROR: Your client ID and/or client secret may be invalid.") >>,
                    nextpc)
           ELSE IF k = MissingDevToken
           THEN replaceDevToken(
                    out \o jsonLog
                        \o << Log("ERROR: Your developer token is missing in the configuration file") >>,
                    nextpc)
           ELSE /\ pc' = nextpc
                /\ out' = out \o jsonLog \o Advice(k)
                /\ UNCHANGED diskVars

(***************************************************************************)
(* The report both interactive flows and the service-account flow end on.  *)
(***************************************************************************)
\* ReportLines without the test of Verbose
ReportLinesAlways ==
    IF err = NoErr
    THEN << Log(accountInfo[1]), Log(MsgSuccess) >>
    ELSE << Log(err[1]), Log(MsgFailed) >>

ReportLines ==
    IF err = NoErr
    THEN (IF verbose THEN << Log(accountInfo[1]) >> ELSE << >>) \o << Log(MsgSuccess) >>
    ELSE (IF verbose THEN << Log(err[1]) >> ELSE << >>) \o << Log(MsgFailed) >>

\* The authorization-code exchange of oauth2Client, as the server decides
\* it: rejected, or accepted with the refresh token of the new token (the
\* server sends none when it has issued one for this grant before).
Exchange(c) ==
    IF c = "" THEN { [ok |-> FALSE, rt |-> ""] }
    ELSE { [ok |-> FALSE, rt |-> ""], [ok |-> TRUE, rt |-> NewToken],
           [ok |-> TRUE, rt |-> ""] }

MsgExchangeFailed == "oauth2: cannot fetch token: 400 Bad Request"

(***************************************************************************)
(* The installed-app flow: simulateAppFlow, reconnect, genAuthCode,        *)
(* connectWithNoRefreshToken, connectWithRefreshToken.                     *)
(***************************************************************************)

\* simulateAppFlow: accountInfo, err := c.connectWithRefreshToken()
AppConnect ==
    /\ pc = "app_connect"
    /\ attempt' = attempt + 1
    /\ \E resp \in RefreshResponses(keys, tokenValid) :
          CallGetAccount(RefreshClient, resp, "app_report", "app_diagnose", TRUE)
    /\ UNCHANGED << constVars, webVars, diskVars, customerID, refreshToken,
                    strategy, code, minted, diagnoses >>

\* simulateAppFlow: c.diagnose(err)
AppDiagnose ==
    /\ pc = "app_diagnose"
    /\ diagnose("app_reconnect")
    /\ UNCHANGED << constVars, requests, webVars, customerID, attempt, accountInfo, err,
                    refreshToken, strategy, code, minted >>

\* reconnectBranch with the case of MissingDevToken left to the default
reconnectBranchNoDevTokenCase(k) ==
    CASE k = GoogleAdsAPIDisabled -> "retry"
      [] k = InvalidCustomerID -> "readcid"
      [] k = InvalidClientInfo -> "retry"
      [] k = AccessNotPermittedForManagerAccount -> "regenerate"
      [] k = InvalidRefreshToken -> "regenerate"
      [] OTHER -> "regenerate"

\* The branch of the switch of reconnect for kind k.
reconnectBranch(k) ==
    CASE k = GoogleAdsAPIDisabled -> "retry"
      [] k = InvalidCustomerID -> "readcid"
      [] k = InvalidClientInfo -> "retry"
      [] k = AccessNotPermittedForManagerAccount -> "regenerate"
      [] k = InvalidRefreshToken -> "regenerate"
      [] k = MissingDevToken -> "retry"
      [] OTHER -> "regenerate"

\* reconnect: the switch on c.decodeError(err)
AppReconnect ==
    /\ pc = "app_reconnect"
    /\ LET b == reconnectBranch(decodeError(err[1]))
       IN  /\ strategy' = b
           /\ pc' = CASE b = "retry" -> "app_retry"
                      [] b = "readcid" -> "app_readcid"
                      [] b = "regenerate" -> "app_consent"
           /\ out' = IF b = "regenerate" THEN Append(out, Log(MsgRegenerate)) ELSE out
    /\ UNCHANGED << constVars, requests, webVars, diskVars, customerID, attempt,
                    accountInfo, err, refreshToken, code, minted, diagnoses >>

\* ReadCustomerID, one turn of its loop
AppReadCustomerID ==
    /\ pc = "app_readcid"
    /\ \E line \in CidLines :
          /\ line = "" => Count(out, Log(MsgEnterCID)) < MaxEmptyLines
          /\ out' = out \o << Log(MsgEnterCID), Stdin(line) >>
          /\ IF line # ""
             THEN customerID' = RemoveAll(line, "-") /\ pc' = "app_retry"
             ELSE UNCHANGED << customerID, pc >>
    /\ UNCHANGED << constVars, requests, webVars, diskVars, attempt, accountInfo, err,
                    refreshToken, strategy, code, minted, diagnoses >>

\* reconnect: accountInfo, oErr := c.connectWithRefreshToken();
\* return accountInfo, "", oErr
AppRetry ==
    /\ pc = "app_retry"
    /\ attempt' = attempt + 1
    /\ refreshToken' = ""
    /\ \E resp \in RefreshResponses(keys, tokenValid) :
          CallGetAccount(RefreshClient, resp, "app_report", "app_report", FALSE)
    /\ UNCHANGED << constVars, webVars, diskVars, customerID, strategy, code,
                    minted, diagnoses >>

\* connectWithNoRefreshToken: genAuthCode and oauth2Client
AppConsent ==
    /\ pc = "app_consent"
    /\ attempt' = attempt + 1
    /\ \E c \in Codes : \E x \in Exchange(c) :
          /\ code' = c
          /\ out' = out \o << Log(MsgVisitURL), Log("Copy the code here to continue:"),
                              Stdout("Enter Code >> "), Stdin(c) >>
                        \o (IF x.ok THEN << >> ELSE << Log(MsgExchangeFailed) >>)
          /\ refreshToken' = IF x.ok THEN x.rt ELSE refreshToken
          /\ minted' = IF x.ok /\ x.rt # "" THEN Append(minted, x.rt) ELSE minted
          /\ pc' = IF x.ok THEN "app_fetch" ELSE "fatal_exchange"
    /\ UNCHANGED << constVars, requests, webVars, diskVars, customerID, accountInfo, err,
                    strategy, diagnoses >>

\* connectWithNoRefreshToken: accountInfo, err := c.getAccount(client)
AppFetch ==
    /\ pc = "app_fetch"
    /\ \E resp \in ApiResponses :
          CallGetAccount(CodeClient(code), resp, "app_report", "app_report", FALSE)
    /\ UNCHANGED << constVars, webVars, diskVars, customerID, attempt,
                    refreshToken, strategy, code, minted, diagnoses >>

\* simulateAppFlow: the report
AppReport ==
    /\ pc = "app_report"
    /\ out' = out \o ReportLines
    /\ pc' = IF err = NoErr /\ refreshToken # "" THEN "app_ask" ELSE "done"
    /\ UNCHANGED << constVars, requests, webVars, diskVars, customerID, attempt,
                    accountInfo, err, refreshToken, strategy, code, minted,
                    diagnoses >>

\* Affirmative without regard to case
AffirmativeAnyCase(answer) == answer \in {"Y", "y"}

\* The test replaceRefreshToken makes on the operator's answer.
Affirmative(answer) == answer = "Y"

\* replaceRefreshToken(&c.ConfigFile, refreshToken)
replaceRefreshToken(token, nextpc) ==
    \E answer \in Answers :
        LET o == out \o << Log(MsgAskReplace),
                           Stdout("Enter Y for Yes [Anything else is No] >> "),
                           Stdin(answer) >>
        IN  IF Affirmative(answer)
            THEN \E t \in now..MaxClock, f \in FsFailures :
                    AfterReplaceConfig(
                        ReplaceConfig(keys, lang, file, backups, RefreshToken, token, t, f),
                        RefreshToken, token, t, o, nextpc)
            ELSE /\ out' = Append(o, Log(MsgNotReplaced))
                 /\ pc' = nextpc
                 /\ UNCHANGED diskVars

\* simulateAppFlow: replaceRefreshToken(&c.ConfigFile, refreshToken)
AppAsk ==
    /\ pc = "app_ask"
    /\ replaceRefreshToken(refreshToken, "done")
    /\ UNCHANGED << constVars, requests, webVars, customerID, attempt, accountInfo, err,
                    refreshToken, strategy, code, minted, diagnoses >>

(***************************************************************************)
(* The web flow: simulateWebFlow, connectWebFlow, runServer on the         *)
(* foreground goroutine; ListenAndServe and serverHandler in the           *)
(* background; the unbuffered channel authCode between them.               *)
(***************************************************************************)
Active(h) == h.st \in {"running", "sending", "sent"}

\* simulateWebFlow: http.HandleFunc("/", serverHandler)
WebRegister ==
    /\ pc = "web_register"
    /\ registered' = TRUE
    /\ pc' = "web_url"
    /\ UNCHANGED << constVars, requests, diskVars, customerID, attempt, accountInfo, err,
                    refreshToken, strategy, code, minted, out, diagnoses, srv,
                    started, handlers, chClosed, sent, received >>

\* connectWebFlow: the redirect note and the consent URL are logged
WebShowURL ==
    /\ pc = "web_url"
    /\ attempt' = attempt + 1
    /\ out' = out \o << Log("You will need to enter the URL http://localhost:8080 as a valid "
                            \o "redirect URI in your Google APIs Console's project (https://console.developers.google.com/apis/library). "
                            \o "Please follow this guide (https://developers.google.com/google-ads/api/docs/oauth/cloud-project) "
                            \o "for further instructions."),
                        Log(MsgVisitURL) >>
    /\ pc' = "web_runserver"
    /\ UNCHANGED << constVars, requests, webVars, diskVars, customerID, accountInfo, err,
                    refreshToken, strategy, code, minted, diagnoses >>

\* connectWebFlow: srv := runServer()
runServer ==
    /\ pc = "web_runserver"
    /\ out' = Append(out, Log(MsgRunServer))
    /\ srv' = "spawned"
    /\ started' = started + 1
    /\ pc' = "web_recv"
    /\ UNCHANGED << constVars, requests, diskVars, customerID, attempt, accountInfo, err,
                    refreshToken, strategy, code, minted, diagnoses, registered,
                    handlers, chClosed, sent, received >>

\* go srv.ListenAndServe(): the listener is bound
ListenAndServe ==
    /\ pc \notin Terminal
    /\ srv = "spawned"
    /\ srv' = "listening"
    /\ UNCHANGED << constVars, requests, diskVars, customerID, pc, attempt, accountInfo,
                    err, refreshToken, strategy, code, minted, out, diagnoses,
                    registered, started, handlers, chClosed, sent, received >>

\* The browser requests http://localhost:8080/?code=c: a handler goroutine
Callback ==
    /\ pc \notin Terminal
    /\ srv = "listening"
    /\ registered
    /\ \E i \in 1..MaxRequests :
          /\ handlers[i].st = "none"
          /\ \A j \in 1..(i - 1) : handlers[j].st # "none"
          /\ \E c \in Codes :
                handlers' = [handlers EXCEPT ![i] = [st |-> "running", code |-> c]]
    /\ UNCHANGED << constVars, requests, diskVars, customerID, pc, attempt, accountInfo,
                    err, refreshToken, strategy, code, minted, out, diagnoses,
                    registered, srv, started, chClosed, sent, received >>

\* serverHandler without the test of the code
serverHandlerNoTest(i) ==
    /\ pc \notin Terminal
    /\ handlers[i].st = "running"
    /\ handlers' = [handlers EXCEPT ![i].st = "sending"]
    /\ UNCHANGED << constVars, requests, diskVars, customerID, pc, attempt, accountInfo,
                    err, refreshToken, strategy, code, minted, out, diagnoses,
                    registered, srv, started, chClosed, sent, received >>

\* serverHandler that acknowledges a request without a code
serverHandlerAckEmpty(i) ==
    /\ pc \notin Terminal
    /\ handlers[i].st = "running"
    /\ handlers' = [handlers EXCEPT
                       ![i].st = IF handlers[i].code # "" THEN "sending" ELSE "sent"]
    /\ UNCHANGED << constVars, requests, diskVars, customerID, pc, attempt, accountInfo,
                    err, refreshToken, strategy, code, minted, out, diagnoses,
                    registered, srv, started, chClosed, sent, received >>

\* serverHandler: code := r.URL.Query().Get("code"); if code != ""
serverHandler(i) ==
    /\ pc \notin Terminal
    /\ handlers[i].st = "running"
    /\ handlers' = [handlers EXCEPT
                       ![i].st = IF handlers[i].code # "" THEN "sending" ELSE "done"]
    /\ UNCHANGED << constVars, requests, diskVars, customerID, pc, attempt, accountInfo,
                    err, refreshToken, strategy, code, minted, out, diagnoses,
                    registered, srv, started, chClosed, sent, received >>

\* WebReceive in a loop: the foreground stays at the receive
WebReceiveLoop(i) ==
    /\ pc = "web_recv"
    /\ ~chClosed
    /\ handlers[i].st = "sending"
    /\ code' = handlers[i].code
    /\ sent' = Append(sent, handlers[i].code)
    /\ received' = Append(received, handlers[i].code)
    /\ handlers' = [handlers EXCEPT ![i].st = "sent"]
    /\ pc' = "web_recv"
    /\ UNCHANGED << constVars, requests, diskVars, customerID, attempt, accountInfo, err,
                    refreshToken, strategy, minted, out, diagnoses, registered,
                    srv, started, chClosed >>

\* authCode <- code in serverHandler meets code := <-authCode in
\* connectWebFlow: the channel is unbuffered, both complete together
WebReceive(i) ==
    /\ pc = "web_recv"
    /\ ~chClosed
    /\ handlers[i].st = "sending"
    /\ code' = handlers[i].code
    /\ sent' = Append(sent, handlers[i].code)
    /\ received' = Append(received, handlers[i].code)
    /\ handlers' = [handlers EXCEPT ![i].st = "sent"]
    /\ pc' = "web_shutdown"
    /\ UNCHANGED << constVars, requests, diskVars, customerID, attempt, accountInfo, err,
                    refreshToken, strategy, minted, out, diagnoses, registered,
                    srv, started, chClosed >>

\* serverHandler after the send: the log line and the acknowledgement
HandlerAck(i) ==
    /\ pc \notin Terminal
    /\ handlers[i].st = "sent"
    /\ out' = out \o << Log(MsgCodeReceived \o handlers[i].code),
                        [e |-> "http", v |-> MsgAck] >>
    /\ handlers' = [handlers EXCEPT ![i].st = "done"]
    /\ UNCHANGED << constVars, requests, diskVars, customerID, pc, attempt, accountInfo,
                    err, refreshToken, strategy, code, minted, diagnoses,
                    registered, srv, started, chClosed, sent, received >>

\* connectWebFlow without the call of srv.Shutdown
WebShutdownSkipped ==
    /\ pc = "web_shutdown"
    /\ pc' = "web_exchange"
    /\ UNCHANGED << constVars, requests, diskVars, customerID, attempt, accountInfo, err,
                    refreshToken, strategy, code, minted, out, diagnoses,
                    registered, srv, started, handlers, chClosed, sent, received >>

\* srv.Shutdown: the listener is closed, no request is accepted any more
WebShutdown ==
    /\ pc = "web_shutdown"
    /\ srv' = "closing"
    /\ pc' = "web_shutdown_wait"
    /\ UNCHANGED << constVars, requests, diskVars, customerID, attempt, accountInfo, err,
                    refreshToken, strategy, code, minted, out, diagnoses,
                    registered, started, handlers, chClosed, sent, received >>

\* srv.Shutdown that returns without waiting for the handlers
WebShutdownDoneNoWait ==
    /\ pc = "web_shutdown_wait"
    /\ srv' = "closed"
    /\ pc' = "web_exchange"
    /\ UNCHANGED << constVars, requests, diskVars, customerID, attempt, accountInfo, err,
                    refreshToken, strategy, code, minted, out, diagnoses,
                    registered, started, handlers, chClosed, sent, received >>

\* srv.Shutdown returns once no connection has a handler running
WebShutdownDone ==
    /\ pc = "web_shutdown_wait"
    /\ \A i \in 1..MaxRequests : ~Active(handlers[i])
    /\ srv' = "closed"
    /\ pc' = "web_exchange"
    /\ UNCHANGED << constVars, requests, diskVars, customerID, attempt, accountInfo, err,
                    refreshToken, strategy, code, minted, out, diagnoses,
                    registered, started, handlers, chClosed, sent, received >>

\* connectWebFlow: client, _ := c.oauth2Client(code)
WebExchange ==
    /\ pc = "web_exchange"
    /\ \E x \in Exchange(code) :
          /\ out' = IF x.ok THEN out ELSE Append(out, Log(MsgExchangeFailed))
          /\ minted' = IF x.ok /\ x.rt # "" THEN Append(minted, x.rt) ELSE minted
          /\ pc' = IF x.ok THEN "web_fetch" ELSE "fatal_exchange"
    /\ UNCHANGED << constVars, requests, webVars, diskVars, customerID, attempt,
                    accountInfo, err, refreshToken, strategy, code, diagnoses >>

\* WebFetch with the test of err after every attempt, not only the first
WebFetchLoop ==
    /\ pc = "web_fetch"
    /\ \E resp \in ApiResponses :
          CallGetAccount(CodeClient(code), resp, "web_close", "web_diagnose", TRUE)
    /\ UNCHANGED << constVars, webVars, diskVars, customerID, attempt,
                    refreshToken, strategy, code, minted, diagnoses >>

\* connectWebFlow: return c.getAccount(client), and the test of err in
\* simulateWebFlow after the first attempt
WebFetch ==
    /\ pc = "web_fetch"
    /\ \E resp \in ApiResponses :
          IF attempt = 1
          THEN CallGetAccount(CodeClient(code), resp, "web_close", "web_diagnose", TRUE)
          ELSE CallGetAccount(CodeClient(code), resp, "web_close", "web_close", FALSE)
    /\ UNCHANGED << constVars, webVars, diskVars, customerID, attempt,
                    refreshToken, strategy, code, minted, diagnoses >>

\* simulateWebFlow: c.diagnose(err), then the second connectWebFlow
WebDiagnose ==
    /\ pc = "web_diagnose"
    /\ diagnose("web_url")
    /\ UNCHANGED << constVars, requests, webVars, customerID, attempt, accountInfo, err,
                    refreshToken, strategy, code, minted >>

\* simulateWebFlow: close(authCode)
WebClose ==
    /\ pc = "web_close"
    /\ chClosed' = TRUE
    /\ pc' = "web_report"
    /\ UNCHANGED << constVars, requests, diskVars, customerID, attempt, accountInfo, err,
                    refreshToken, strategy, code, minted, out, diagnoses,
                    registered, srv, started, handlers, sent, received >>

\* simulateWebFlow: the report
WebReport ==
    /\ pc = "web_report"
    /\ out' = out \o ReportLines
    /\ pc' = "done"
    /\ UNCHANGED << constVars, requests, webVars, diskVars, customerID, attempt,
                    accountInfo, err, refreshToken, strategy, code, minted,
                    diagnoses >>

(***************************************************************************)
(* The service-account flow: simulateServiceAccFlow.                       *)
(***************************************************************************)

\* accountInfo, err := c.getAccount(client) with the JWT client
SvcConnect ==
    /\ pc = "svc_connect"
    /\ attempt' = attempt + 1
    /\ \E resp \in ApiResponses \cup {Transport(e) : e \in TokenErrors} :
          CallGetAccount(JWTClient, resp, "svc_report", "svc_diagnose", FALSE)
    /\ UNCHANGED << constVars, webVars, diskVars, customerID, refreshToken,
                    strategy, code, minted, diagnoses >>

\* SvcDiagnose followed by another connection attempt
SvcDiagnoseRetry ==
    /\ pc = "svc_diagnose"
    /\ diagnose("svc_connect")
    /\ UNCHANGED << constVars, requests, webVars, customerID, attempt, accountInfo, err,
                    refreshToken, strategy, code, minted >>

\* c.diagnose(err)
SvcDiagnose ==
    /\ pc = "svc_diagnose"
    /\ diagnose("svc_report")
    /\ UNCHANGED << constVars, requests, webVars, customerID, attempt, accountInfo, err,
                    refreshToken, strategy, code, minted >>

\* the report
SvcReport ==
    /\ pc = "svc_report"
    /\ out' = out \o ReportLines
    /\ pc' = "done"
    /\ UNCHANGED << constVars, requests, webVars, diskVars, customerID, attempt,
                    accountInfo, err, refreshToken, strategy, code, minted,
                    diagnoses >>

(***************************************************************************)
(* The specifications.                                                     *)
(***************************************************************************)
Foreground ==
    \/ SimulateOAuthFlow
    \/ AppConnect
    \/ AppDiagnose
    \/ AppReconnect
    \/ AppReadCustomerID
    \/ AppRetry
    \/ AppConsent
    \/ AppFetch
    \/ AppReport
    \/ AppAsk
    \/ WebRegister
    \/ WebShowURL
    \/ runServer
    \/ \E i \in 1..MaxRequests : WebReceive(i)
    \/ WebShutdown
    \/ WebShutdownDone
    \/ WebExchange
    \/ WebFetch
    \/ WebDiagnose
    \/ WebClose
    \/ WebReport
    \/ SvcConnect
    \/ SvcDiagnose
    \/ SvcReport

Background ==
    \/ ListenAndServe
    \/ \E i \in 1..MaxRequests : serverHandler(i)
    \/ \E i \in 1..MaxRequests : HandlerAck(i)

Next == Foreground \/ Background \/ Callback

Spec == Init /\ [][Next]_vars

\* The Go scheduler runs every goroutine that can run; the browser is
\* under no obligation to send a request.
FairSpec == Spec /\ WF_vars(Foreground) /\ WF_vars(Background)

\* The web flow alone.
WebInit == Init /\ oauthType = Web /\ lang = "python"

WebForeground ==
    \/ SimulateOAuthFlow
    \/ WebRegister
    \/ WebShowURL
    \/ runServer
    \/ \E i \in 1..MaxRequests : WebReceive(i)
    \/ WebShutdown
    \/ WebShutdownDone
    \/ WebExchange
    \/ WebFetch
    \/ WebDiagnose
    \/ WebClose
    \/ WebReport

WebNext == WebForeground \/ Background \/ Callback

WebSpec == WebInit /\ [][WebNext]_vars

\* The web flow of a configuration without a refresh token, every
\* goroutine that can run running in the end; the browser is under no
\* obligation to send a request.
FairWebInit == WebInit /\ keys.RefreshToken = ""

FairWebSpec ==
    /\ FairWebInit
    /\ [][WebNext]_vars
    /\ WF_vars(WebForeground)
    /\ WF_vars(Background)

(***************************************************************************)
(* decodeError on its own: error texts put together from the markers and   *)
(* from fragments that nearly are markers.                                 *)
(***************************************************************************)
Fragments ==
    { MInvalidClient, MUnauthorizedClient, MInvalidGrant, MTokenNotSet,
      MUserPermissionDenied, MPermissionDenied, MUnauthenticated,
      MManagerAccount, MDevTokenMissing, MInvalidCustomerID,
      "\"PERMISSION_DENIED", "PERMISSION_DENIED", "\"", "Invalid_Client",
      "invalid_", "client", "unauthenticated", "Refresh token is not set",
      " status: " }

RECURSIVE Texts(_)
Texts(n) ==
    IF n = 0 THEN {""}
    ELSE Texts(n - 1) \cup {t \o f : t \in Texts(n - 1), f \in Fragments}

ClassifyInit ==
    /\ FlowInit
    /\ oauthType = InstalledApp /\ ~verbose /\ ~tokenValid /\ lang = "python"
    /\ keys.RefreshToken = ""
    /\ text \in Texts(MaxFrags)
    /\ kind = << >>
    /\ rw = << >>
    /\ rc = << >>
    /\ rd = << >>

\* c.decodeError(err) for the error with text `text`
Classify ==
    /\ kind = << >>
    /\ kind' = << decodeError(text) >>
    /\ UNCHANGED flowVars
    /\ UNCHANGED << text, rw, rc, rd >>

ClassifySpec == ClassifyInit /\ [][Classify]_vars

(***************************************************************************)
(* ReplaceConfigFromReader on its own: texts put together from lines that  *)
(* hold the key (plain, indented, commented out), a line of another key,   *)
(* and the language's anchors; the call is made on the text, then again on *)
(* its own output.                                                         *)
(***************************************************************************)
RewriteKeys == {DevToken, RefreshToken}

\* An assignment of value to key as a hand-written file of language l has
\* it, without the line's end.
Assignment(l, key, value) ==
    LET field == GetConfigKeysInLang(l, key)
    IN  CASE l = "java" -> field \o "=" \o value
          [] l = "dotnet" -> "<add key=\"" \o field \o "\" value=\"" \o value \o "\" />"
          [] l = "php" -> field \o " = \"" \o value \o "\""
          [] l = "python" -> field \o ": " \o value
          [] l = "ruby" -> field \o " = '" \o value \o "'"

Anchors(l) ==
    CASE l = "dotnet" -> {"<GoogleAdsApi>"}
      [] l = "php" -> {"[GOOGLE_ADS]", "[OAUTH2]"}
      [] l = "ruby" -> {"Google::Ads::GoogleAds::Config.new do |c|"}
      [] OTHER -> {""}

LinePool(l, key) ==
    { Assignment(l, key, "OLD"),
      "  " \o Assignment(l, key, "OLD"),
      Languages[l].LeftMeta \o Assignment(l, key, "OLDER") \o Languages[l].RightMeta,
      Assignment(l, ClientID, "id") }
    \cup Anchors(l)

RECURSIVE InputTexts(_, _, _)
InputTexts(l, key, n) ==
    IF n = 0 THEN {""}
    ELSE LET shorter == InputTexts(l, key, n - 1)
         IN  shorter \cup {s \o t \o "\n" : s \in shorter, t \in LinePool(l, key)}

RewriteInit ==
    /\ FlowInit
    /\ oauthType = InstalledApp /\ ~verbose /\ ~tokenValid /\ lang = "python"
    /\ keys.RefreshToken = ""
    /\ text = ""
    /\ kind = << >>
    /\ rc = << >>
    /\ rd = << >>
    /\ \E l \in Langs, key \in RewriteKeys :
          \E s \in InputTexts(l, key, MaxLines) :
             rw = [lang |-> l, key |-> key, value |-> "NEW", texts |-> << s >>]

\* c.ReplaceConfigFromReader(key, value, r), r reading the latest text
Rewrite ==
    /\ Len(rw.texts) <= MaxRewrites
    /\ rw' = [rw EXCEPT !.texts =
                 Append(@, ReplaceConfigFromReader(rw.lang, rw.key, rw.value,
                                                   rw.texts[Len(rw.texts)]))]
    /\ UNCHANGED flowVars
    /\ UNCHANGED << text, kind, rc, rd >>

RewriteSpec == RewriteInit /\ [][Rewrite]_vars

(***************************************************************************)
(* ReplaceConfig step by step: the calls it makes on the filesystem, each  *)
(* of which can fail, for a few calls in a row on the same file.           *)
(***************************************************************************)
ConfigPath == "/home/user/google-ads.yaml"
TempPath == "/tmp/googleadsapi_client_lib_config000000001"

Digit == << "0", "1", "2", "3", "4", "5", "6", "7", "8", "9" >>

\* time.Now().Format("2006-01-02_15-04-05") at clock reading t (seconds)
Stamp(t) ==
    "2019-06-01_12-00-" \o Digit[((t \div 10) % 10) + 1] \o Digit[(t % 10) + 1]

\* backupFp := configFp + "_" + time.Now().Format(...)
BackupPath(t) == ConfigPath \o "_" \o Stamp(t)

PatchKeys == {ClientID, ClientSecret, RefreshToken}

RcIdle ==
    [at |-> "idle", key |-> "", value |-> "", keys0 |-> keys, file0 |-> file,
     backups0 |-> backups, tmp |-> << >>, t |-> 0, fail |-> "none",
     backupFp |-> "", ret |-> "", ops |-> << >>, out0 |-> 0]

PatchInit ==
    /\ FlowInit
    /\ oauthType = InstalledApp /\ ~verbose /\ ~tokenValid /\ lang = "python"
    /\ text = ""
    /\ kind = << >>
    /\ rw = << >>
    /\ rc = [RcIdle EXCEPT !.at = "idle"] @@ [done |-> << >>]
    /\ rd = << >>

patchFrame ==
    << oauthType, verbose, customerID, lang, tokenValid, pc, attempt, accountInfo,
       err, refreshToken, strategy, code, minted, diagnoses, registered, srv,
       started, handlers, chClosed, sent, received, writes, requests, text, kind,
       rw, rd >>

\* The log line of log.Fatalf, and the end of the run.
RcFatal(step, msg) ==
    /\ rc' = [rc EXCEPT !.at = "fatal", !.fail = step]
    /\ out' = Append(out, Log(msg))

\* c.ReplaceConfig(key, value) is called: c.SetConfigKeys(key, value)
RcCall ==
    /\ rc.at \in {"idle", "returned"}
    /\ Len(rc.done) < MaxCalls
    /\ \E key \in PatchKeys :
          /\ keys' = SetConfigKeys(keys, key, "new")
          /\ rc' = [rc EXCEPT !.at = "temp", !.key = key, !.value = "new",
                              !.keys0 = keys, !.file0 = file, !.backups0 = backups,
                              !.tmp = << >>, !.t = now, !.fail = "none",
                              !.backupFp = "", !.ret = "", !.ops = << >>,
                              !.out0 = Len(out)]
    /\ UNCHANGED << patchFrame, file, backups, now, out >>

\* tmpfile, err := ioutil.TempFile("", "googleadsapi_client_lib_config")
RcTempFile ==
    /\ rc.at = "temp"
    /\ \/ /\ rc' = [rc EXCEPT !.at = "open", !.tmp = << "" >>,
                              !.ops = Append(@, [op |-> "TempFile", path |-> TempPath])]
          /\ out' = out
       \/ RcFatal("temp", "ERROR: Problem creating temp file")
    /\ UNCHANGED << patchFrame, keys, file, backups, now >>

\* f, err := os.Open(configFp)
RcOpen ==
    /\ rc.at = "open"
    /\ \/ /\ file.present
          /\ rc' = [rc EXCEPT !.at = "write",
                              !.ops = Append(@, [op |-> "Open", path |-> ConfigPath])]
          /\ out' = out
       \/ RcFatal("open", "ERROR: Problem opening config file")
    /\ UNCHANGED << patchFrame, keys, file, backups, now >>

\* newConfigStr := c.ReplaceConfigFromReader(key, value, f);
\* tmpfile.Write([]byte(newConfigStr)); a write that fails may have written
\* a part
RcWrite ==
    /\ rc.at = "write"
    /\ LET newConfigStr == ReplaceConfigFromReader(lang, rc.key, rc.value, file.text)
       IN  \/ /\ rc' = [rc EXCEPT !.at = "rename1", !.tmp = << newConfigStr >>,
                                  !.ops = Append(@, [op |-> "Write", path |-> TempPath,
                                                     text |-> newConfigStr])]
              /\ out' = out
           \/ /\ RcFatal("write", "ERROR: Cannot write to temp config file")
    /\ UNCHANGED << patchFrame, keys, file, backups, now >>

\* RcRenameBackup without the rename: the config file stays in place and is
\* replaced by the next step.
RcRenameBackupSkipped ==
    /\ rc.at = "rename1"
    /\ \E t \in now..MaxClock :
          /\ now' = t
          /\ rc' = [rc EXCEPT !.at = "rename2", !.t = t, !.backupFp = BackupPath(t)]
          /\ out' = Append(out, Log("Backing up config file"))
    /\ UNCHANGED << patchFrame, keys, file, backups >>

\* backupFp := ...; os.Rename(configFp, backupFp): a file already at
\* backupFp is replaced
RcRenameBackup ==
    /\ rc.at = "rename1"
    /\ \E t \in now..MaxClock :
          /\ now' = t
          /\ \/ /\ rc' = [rc EXCEPT !.at = "rename2", !.t = t, !.backupFp = BackupPath(t),
                                    !.ops = Append(@, [op |-> "Rename", path |-> ConfigPath,
                                                       to |-> BackupPath(t)])]
                /\ backups' = {b \in backups : b[1] # t} \cup {<< t, file.text >>}
                /\ file' = [present |-> FALSE, text |-> ""]
                /\ out' = Append(out, Log("Backing up config file"))
             \/ /\ rc' = [rc EXCEPT !.at = "fatal", !.fail = "rename1", !.t = t,
                                    !.backupFp = BackupPath(t)]
                /\ out' = out \o << Log("Backing up config file"),
                                    Log("ERROR: Cannot rename config file") >>
                /\ UNCHANGED << file, backups >>
    /\ UNCHANGED << patchFrame, keys >>

\* os.Rename(tmpfile.Name(), configFp)
RcRenameTemp ==
    /\ rc.at = "rename2"
    /\ \/ /\ rc' = [rc EXCEPT !.at = "return", !.tmp = << >>,
                              !.ops = Append(@, [op |-> "Rename", path |-> TempPath,
                                                 to |-> ConfigPath])]
          /\ file' = [present |-> TRUE, text |-> rc.tmp[1]]
          /\ out' = Append(out, Log("Creating a new config file"))
       \/ /\ rc' = [rc EXCEPT !.at = "fatal", !.fail = "rename2"]
          /\ out' = out \o << Log("Creating a new config file"),
                              Log("ERROR: Cannot rename config file") >>
          /\ file' = file
    /\ UNCHANGED << patchFrame, keys, backups, now >>

\* return backupFp
RcReturn ==
    /\ rc.at = "return"
    /\ rc' = [rc EXCEPT !.at = "returned", !.ret = rc.backupFp,
                        !.done = Append(@, [prior |-> rc.file0.text,
                                            backup |-> rc.backupFp])]
    /\ UNCHANGED << patchFrame, keys, file, backups, now, out >>

PatchNext ==
    \/ RcCall
    \/ RcTempFile
    \/ RcOpen
    \/ RcWrite
    \/ RcRenameBackup
    \/ RcRenameTemp
    \/ RcReturn

PatchSpec == PatchInit /\ [][PatchNext]_vars

(***************************************************************************)
(* ReadCustomerID on its own, over the raw lines of the terminal.          *)
(***************************************************************************)
StdinLines ==
    {"\n", " \n", "\t\n", "123-456-7890\n", "abc\n", " 98-76 \n", "-\n", " - -\n"}

\* readStdin for the line str the reader returns:
\* strings.TrimSpace(stdinSanitizer.Replace(str))
readStdin(str) == TrimSpace(RemoveAll(str, "\n"))

ReadInit ==
    /\ FlowInit
    /\ oauthType = InstalledApp /\ ~verbose /\ ~tokenValid /\ lang = "python"
    /\ keys.RefreshToken = ""
    /\ text = ""
    /\ kind = << >>
    /\ rw = << >>
    /\ rc = << >>
    /\ rd = [asked |-> 0, lines |-> << >>, ret |-> << >>]

\* ReadCustomerID, one turn of its loop: the prompt, the line, the test
ReadCustomerID ==
    /\ rd.ret = << >>
    /\ rd.asked < MaxTurns
    /\ \E str \in StdinLines :
          LET cid == readStdin(str)
          IN  rd' = [asked |-> rd.asked + 1,
                     lines |-> Append(rd.lines, str),
                     ret |-> IF cid # "" THEN << RemoveAll(cid, "-") >> ELSE << >>]
    /\ UNCHANGED flowVars
    /\ UNCHANGED << text, kind, rw, rc >>

ReadSpec == ReadInit /\ [][ReadCustomerID]_vars

(***************************************************************************)
(* Properties.                                                             *)
(***************************************************************************)

\* The markers and their kinds, in the order the classifier's contract
\* lists them.
MarkerTable ==
    << << "invalid_client", InvalidClientInfo >>,
       << "unauthorized_client", Unauthorized >>,
       << "invalid_grant", InvalidRefreshToken >>,
       << "refresh token is not set", InvalidRefreshToken >>,
       << "USER_PERMISSION_DENIED", InvalidRefreshToken >>,
       << "\"PERMISSION_DENIED\"", GoogleAdsAPIDisabled >>,
       << "UNAUTHENTICATED", Unauthenticated >>,
       << "CANNOT_BE_EXECUTED_BY_MANAGER_ACCOUNT", AccessNotPermittedForManagerAccount >>,
       << "DEVELOPER_TOKEN_PARAMETER_MISSING", MissingDevToken >>,
       << "INVALID_CUSTOMER_ID", InvalidCustomerID >> >>

Present(t) == {i \in DOMAIN MarkerTable : Contains(t, MarkerTable[i][1])}

FirstListed(t) ==
    IF Present(t) = {} THEN UnknownError
    ELSE MarkerTable[CHOOSE i \in Present(t) : \A j \in Present(t) : i <= j][2]

\* C2: decodeError returns the kind of the earliest-listed marker the text
\* contains (case-sensitive substring match), and UnknownError for a text
\* that contains none.
C2_FirstMarkerWins == kind # << >> => kind[1] = FirstListed(text)

\* C2 witness: a classified text holding two markers, the later-listed one
\* first in the text; the earlier-listed one decides.
C2_Witness ==
    /\ kind = << InvalidRefreshToken >>
    /\ text = "INVALID_CUSTOMER_ID" \o "USER_PERMISSION_DENIED"

Last(seq) == seq[Len(seq)]

Aborted == {"panic_diagnose", "panic_getAccount", "fatal_exchange", "fatal_config"}

\* The positions of the two interactive flows from the start of the second
\* connection attempt to its result.
InSecondAttempt ==
    {"app_fetch", "web_runserver", "web_recv", "web_shutdown",
     "web_shutdown_wait", "web_exchange", "web_fetch"}

\* The positions after the last attempt's result.
Reporting == {"app_report", "app_ask", "web_close", "web_report", "done"}

\* C1: in the installed-app flow and the web flow there are at most two
\* connection attempts and at most one diagnose call; a second attempt is
\* made only after the one diagnose call; once the second attempt has its
\* result the flow is on its way to the report, never in diagnose or
\* reconnect again; and a run that ends with an error has the failure line
\* as its last line.
C1_RecoveryAtMostOnce ==
    oauthType \in {InstalledApp, Web} =>
        /\ attempt <= 2
        /\ diagnoses <= 1
        /\ attempt = 2 => diagnoses = 1
        /\ attempt = 2 => pc \in InSecondAttempt \cup Reporting \cup Aborted
        /\ (pc = "done" /\ err # NoErr) => Last(out) = Log(MsgFailed)

\* C1 witness: a web-flow run whose second attempt failed too has ended
\* with the failure line after one diagnose call.
C1_Witness ==
    /\ oauthType = Web
    /\ pc = "done"
    /\ attempt = 2
    /\ diagnoses = 1
    /\ err # NoErr
    /\ Len(requests) = 2
    /\ Last(out) = Log(MsgFailed)

RetryKinds == {GoogleAdsAPIDisabled, InvalidClientInfo, MissingDevToken}

C3_Step ==
    /\ pc = "app_reconnect" =>
          LET k == decodeError(err[1])
          IN  pc' = IF k \in RetryKinds THEN "app_retry"
                    ELSE IF k = InvalidCustomerID THEN "app_readcid"
                    ELSE "app_consent"
    /\ (pc = "app_readcid" /\ pc' # pc) =>
          /\ pc' = "app_retry"
          /\ Last(out').e = "stdin"
          /\ Last(out').v = "987-654-3210"
          /\ customerID' = "9876543210"
    /\ pc = "app_retry" =>
          /\ pc' \in {"app_report", "panic_getAccount"}
          /\ refreshToken' = ""
          /\ minted' = minted
          /\ Len(requests') = Len(requests) + 1
          /\ Last(requests').via =
                << "refresh_token", keys.ClientID, keys.ClientSecret, keys.RefreshToken >>
          /\ Last(requests').url = apiURL \o customerID
    /\ (pc = "app_consent" /\ pc' # "fatal_exchange") =>
          /\ pc' = "app_fetch"
          /\ Last(out').e = "stdin"
          /\ code' = Last(out').v
          /\ refreshToken' = IF minted' = minted THEN "" ELSE Last(minted')
          /\ requests' = requests
    /\ pc = "app_fetch" =>
          /\ pc' \in {"app_report", "panic_getAccount"}
          /\ refreshToken' = refreshToken
          /\ Len(requests') = Len(requests) + 1
          /\ Last(requests').via = << "code", keys.ClientID, keys.ClientSecret, code >>

\* C3: reconnect takes, by the kind of the error, one of two ways: for
\* GoogleAdsAPIDisabled, InvalidClientInfo and MissingDevToken it connects
\* again with the stored refresh token and returns the empty refresh
\* token; for InvalidCustomerID it does so after reading a customer ID,
\* and the request goes to the ID read; for every other kind it goes
\* through the consent step, connects with the exchanged code, and returns
\* the refresh token of the exchange.
C3_ReconnectTable == [][C3_Step]_vars

\* C3 witness: the retry after an InvalidCustomerID error has sent its
\* request to the customer ID the operator typed, with the stored token.
C3_Witness ==
    /\ strategy = "readcid"
    /\ pc = "app_report"
    /\ attempt = 2
    /\ refreshToken = ""
    /\ Last(requests).url = apiURL \o "9876543210"
    /\ Last(requests).via[1] = "refresh_token"

\* C4: diagnose and reconnect always return: the run never stops inside
\* diagnose and never stops inside the authorization-code exchange.
C4_NeverAborts == pc \notin {"panic_diagnose", "fatal_exchange"}

C5_Step ==
    (pc = "app_ask" /\ pc' # pc) =>
        /\ Len(out') >= Len(out) + 3
        /\ out'[Len(out) + 3].e = "stdin"
        /\ IF out'[Len(out) + 3].v = "Y"
           THEN /\ writes' = Append(writes, << RefreshToken, refreshToken >>)
                /\ pc' = "done" =>
                      /\ keys'.RefreshToken = refreshToken
                      /\ file'.present
                      /\ Contains(file'.text, configLineStr(lang, RefreshToken, refreshToken))
           ELSE /\ UNCHANGED << keys, file, backups, writes >>
                /\ pc' = "done"

\* C5: replaceRefreshToken calls the config writer with the new refresh
\* token exactly when the operator's answer is "Y"; after any other answer
\* there is no call, and the keys in memory, the configuration file and
\* its backups are as they were.
C5_WriteIffY == [][C5_Step]_vars

\* C5 witness: the operator answered "Y" and the new token is in memory
\* and in the file.
C5_Witness ==
    /\ oauthType = InstalledApp
    /\ pc = "done"
    /\ writes # << >>
    /\ Last(writes) = << RefreshToken, NewToken >>
    /\ keys.RefreshToken = NewToken
    /\ file.present

Asked == Count(out, Log(MsgAskReplace)) > 0

\* C6: a finished run of the installed-app flow or of the web flow has
\* asked the operator whether to keep a refresh token exactly when it
\* passed and an exchange of this run returned a refresh token.
C6_AskedIffPassedAndMinted ==
    (oauthType \in {InstalledApp, Web} /\ pc = "done") =>
        (Asked <=> (err = NoErr /\ minted # << >>))

\* C7: the web flow with a valid stored refresh token never starts the
\* listener and receives nothing from the channel, and its first request
\* is made with the stored token.
C7_StoredTokenNoListener ==
    (oauthType = Web /\ tokenValid) =>
        /\ started = 0
        /\ received = << >>
        /\ requests # << >> => requests[1].via[1] = "refresh_token"

\* C8: in the web flow the consent URL has never been shown more often
\* than the listener has been started.
C8_ListenerBeforeURL ==
    oauthType = Web => Count(out, Log(MsgVisitURL)) <= started

\* The callbacks so far that carried a code.
CodeCallbacks ==
    Cardinality({i \in 1..MaxRequests :
                    handlers[i].st # "none" /\ handlers[i].code # ""})

C9_Safe ==
    (oauthType = Web /\ (pc \in {"web_exchange", "web_fetch"}
                         \/ (pc = "fatal_exchange" /\ attempt > 0))) =>
        /\ code # ""
        /\ Len(received) = attempt
        /\ code = Last(received)
        /\ srv = "closed"
        /\ \E i \in 1..MaxRequests :
              handlers[i].code = code /\ handlers[i].st = "done"
        /\ \A i \in 1..MaxRequests : handlers[i].st \notin {"running", "sending", "sent"}

\* C9: the web flow is at or past the code exchange of an attempt only
\* with a non-empty code that a handler sent and the foreground received
\* in this attempt, with the listener shut down; and a handler that is
\* sending a code leads to the foreground making the exchange with that
\* very code, the listener shut down, and then requesting the account
\* unless the exchange is rejected, or else to more callbacks with a code
\* than there were attempts.
C9_OneCallbackOneExchange ==
    /\ []C9_Safe
    /\ \A i \in 1..MaxRequests :
          (handlers[i].st = "sending")
             ~> \/ /\ pc \in {"web_fetch", "fatal_exchange"}
                   /\ code = handlers[i].code
                   /\ srv = "closed"
                   /\ handlers[i].st = "done"
                \/ CodeCallbacks > attempt

\* C9 witness: after the only callback with a code the first attempt is at
\* the account fetch with that code, the listener shut down.
C9_Witness ==
    /\ oauthType = Web
    /\ pc = "web_fetch"
    /\ attempt = 1
    /\ CodeCallbacks = 1
    /\ received = << "4/code-a" >>
    /\ code = "4/code-a"
    /\ srv = "closed"

C11_ServiceSingleAttempt ==
    oauthType = ServiceAccount =>
        /\ attempt <= 1
        /\ Len(requests) <= 1
        /\ diagnoses <= 1
        /\ Count(out, Log(MsgVisitURL)) = 0
        /\ Count(out, Log(MsgRegenerate)) = 0
        /\ minted = << >> /\ code = "" /\ refreshToken = "" /\ started = 0
        /\ diagnoses = 1 => (attempt = 1 /\ err # NoErr)
        /\ pc = "done" =>
              /\ attempt = 1
              /\ Len(requests) = 1
              /\ requests[1].via = << "jwt" >>
              /\ IF err = NoErr
                 THEN diagnoses = 0 /\ Last(out) = Log(MsgSuccess)
                 ELSE diagnoses = 1 /\ Last(out) = Log(MsgFailed)

\* C11 witness: a service-account run whose attempt failed has ended on
\* the fail line after one diagnose call and one request.
C11_Witness ==
    /\ oauthType = ServiceAccount
    /\ pc = "done"
    /\ err # NoErr
    /\ attempt = 1
    /\ diagnoses = 1
    /\ Len(requests) = 1
    /\ Last(out) = Log(MsgFailed)

\* The lines of the text before and after the k-th rewrite.
In(k) == ScanLines(rw.texts[k])
Out(k) == ScanLines(rw.texts[k + 1])
Rewrites == IF rw = << >> THEN {} ELSE 1..(Len(rw.texts) - 1)

LeftMeta == Languages[rw.lang].LeftMeta
RightMeta == Languages[rw.lang].RightMeta

\* A line that is not a comment already and holds the key's token.
HoldsKey(t) ==
    /\ ~HasPrefix(TrimSpace(t), LeftMeta)
    /\ Contains(t, GetConfigKeysInLang(rw.lang, rw.key))

\* The new line for the value, as a line of the output.
NewLine == ScanLines(configLineStr(rw.lang, rw.key, rw.value))[1]

\* Whether the sequence a is b with some elements left out.
RECURSIVE IsSubseq(_, _)
IsSubseq(a, b) ==
    IF a = << >> THEN TRUE
    ELSE IF b = << >> THEN FALSE
    ELSE IF a[1] = b[1] THEN IsSubseq(Tail(a), Tail(b))
    ELSE IsSubseq(a, Tail(b))

\* C12: the output of a rewrite holds, in the order of the input, every
\* input line: a line that holds the key as left mark + the line as it
\* was, leading white space included + right mark, any other line as it
\* was.
C12_EveryLineKept ==
    \A k \in Rewrites :
        IsSubseq([i \in 1..Len(In(k)) |->
                     IF HoldsKey(In(k)[i])
                     THEN LeftMeta \o In(k)[i] \o RightMeta
                     ELSE In(k)[i]],
                 Out(k))

KeyLines(k) == {i \in 1..Len(In(k)) : HoldsKey(In(k)[i])}

\* C13: when one line of the input holds the key, the output has exactly
\* one line that is the comment-wrapped copy of that line's content and
\* exactly one new line for the value.
C13_OneCommentOneNewLine ==
    \A k \in Rewrites :
        Cardinality(KeyLines(k)) = 1 =>
            LET t == In(k)[CHOOSE i \in KeyLines(k) : TRUE]
            IN  /\ Count(Out(k), LeftMeta \o TrimSpace(t) \o RightMeta) = 1
                /\ Count(Out(k), NewLine) = 1

NewLineTable ==
    [l \in Langs |->
        CASE l = "java" ->
               [DevToken |-> "api.googleads.developerToken=NEW\n",
                RefreshToken |-> "api.googleads.refreshToken=NEW\n"]
          [] l = "python" ->
               [DevToken |-> "developer_token:NEW\n",
                RefreshToken |-> "refresh_token:NEW\n"]
          [] l = "php" ->
               [DevToken |-> "developerToken= \"NEW\"\n",
                RefreshToken |-> "refreshToken= \"NEW\"\n"]
          [] l = "ruby" ->
               [DevToken |-> "c.developer_token= \"NEW\"\n",
                RefreshToken |-> "c.refresh_token= \"NEW\"\n"]
          [] l = "dotnet" ->
               [DevToken |-> "<add key=\"DeveloperToken\" value=\"NEW\"/>\n",
                RefreshToken |-> "<add key=\"OAuth2RefreshToken\" value=\"NEW\"/>\n"]]

\* C16: configLineStr gives key + separator + value for java and python,
\* key + separator + space + quoted value for php and ruby, the add
\* element for dotnet, each with one newline at its end; every line a
\* rewrite inserts is that text on a line of its own; and the rewrite of refresh_token to NEW
\* over a python text with the line 'refresh_token: OLD' holds both
\* '#refresh_token: OLD' and 'refresh_token:NEW'.
C16_LineFormat ==
    rw # << >> =>
        /\ configLineStr(rw.lang, rw.key, rw.value) = NewLineTable[rw.lang][rw.key]
        /\ \A k \in Rewrites :
              /\ Count(Out(k), NewLine) > 0 =>
                    Contains("\n" \o rw.texts[k + 1],
                             "\n" \o NewLineTable[rw.lang][rw.key])
              /\ (rw.lang = "python" /\ rw.key = RefreshToken
                  /\ Contains("\n" \o rw.texts[k], "\nrefresh_token: OLD\n")) =>
                     /\ Contains(rw.texts[k + 1], "#refresh_token: OLD\n")
                     /\ Contains("\n" \o rw.texts[k + 1], "\nrefresh_token:NEW\n")

\* C16 witness: the python text 'refresh_token: OLD' has been rewritten.
C16_Witness ==
    /\ rw # << >>
    /\ rw.lang = "python" /\ rw.key = RefreshToken
    /\ Len(rw.texts) >= 2
    /\ rw.texts[1] = "refresh_token: OLD\n"
    /\ rw.texts[2] = "#refresh_token: OLD\nrefresh_token:NEW\n"

\* The filesystem calls of a ReplaceConfig call that runs to its end, with
\* the clock reading t of the backup name.
ExpectedOps(t) ==
    << [op |-> "TempFile", path |-> TempPath],
       [op |-> "Open", path |-> ConfigPath],
       [op |-> "Write", path |-> TempPath,
        text |-> ReplaceConfigFromReader(lang, rc.key, rc.value, rc.file0.text)],
       [op |-> "Rename", path |-> ConfigPath, to |-> BackupPath(t)],
       [op |-> "Rename", path |-> TempPath, to |-> ConfigPath] >>

InCall == rc.at \notin {"idle"}

\* C17: ReplaceConfig makes its filesystem calls in one order: the temporary
\* file is created and written with the new content, then the config file is
\* renamed to <config-path>_<YYYY-MM-DD_HH-MM-SS>, then the temporary file is
\* renamed to the config path; the call returns the backup path; as long as
\* the rename to the backup has not succeeded the config path holds the
\* original file; and the outcome of the steps is the outcome of
\* ReplaceConfig taken as a whole.
C17_BackupBeforeReplace ==
    InCall =>
        /\ rc.ops = SubSeq(ExpectedOps(rc.t), 1, Len(rc.ops))
        /\ Len(rc.ops) < 4 => file = rc.file0 /\ backups = rc.backups0
        /\ Len(rc.ops) >= 4 => << rc.t, rc.file0.text >> \in backups
        /\ rc.at \in {"return", "returned"} =>
              /\ rc.ops = ExpectedOps(rc.t)
              /\ file = [present |-> TRUE, text |-> ExpectedOps(rc.t)[3].text]
        /\ rc.at = "returned" => rc.ret = BackupPath(rc.t)
        /\ rc.at \in {"fatal", "return", "returned"} =>
              LET r == ReplaceConfig(rc.keys0, lang, rc.file0, rc.backups0,
                                     rc.key, rc.value, rc.t, rc.fail)
              IN  /\ r.keys = keys
                  /\ r.file = file
                  /\ r.backups = backups
                  /\ r.fatal = (rc.at = "fatal")
                  /\ r.logs = SubSeq(out, rc.out0 + 1, Len(out))

C17_Witness ==
    /\ rc.at = "returned"
    /\ rc.key = RefreshToken
    /\ rc.ret = ConfigPath \o "_2019-06-01_12-00-01"
    /\ Contains(file.text, "\nrefresh_token:new\n")
    /\ \E b \in backups : b[2] = rc.file0.text /\ b[2] # file.text

\* C18: when a filesystem step fails, the run ends at that step and the
\* config path holds the complete original content or the complete new
\* content.
C18_ConfigAlwaysWhole ==
    rc.at = "fatal" =>
        /\ file.present
        /\ file.text \in {rc.file0.text,
                          ReplaceConfigFromReader(lang, rc.key, rc.value, rc.file0.text)}

\* C19: every ReplaceConfig call that returned has a backup file, under the
\* path it returned, that holds the content the config file had before that
\* call.
C19_EveryVersionKept ==
    \A i \in DOMAIN rc.done :
        \E b \in backups :
            /\ BackupPath(b[1]) = rc.done[i].backup
            /\ b[2] = rc.done[i].prior

\* C20: getAccount returns for every response: an error when the status is
\* not 200 or the body is a JSON object with a top-level error field, the raw
\* body otherwise; the type assertion on jsonBody["error"] never ends the run.
C20_GetAccountReturns == pc # "panic_getAccount"

\* What a rewrite makes of an input line: the trimmed line in comment marks
\* when it holds the key, the line as it was otherwise.
Kept(t) == IF HoldsKey(t) THEN LeftMeta \o TrimSpace(t) \o RightMeta ELSE t

Section == IF rw.key = DevToken THEN "[GOOGLE_ADS]" ELSE "[OAUTH2]"

\* C22: in php every new line of the output comes directly after a line
\* that is no comment and holds the mark of the key's own section:
\* [GOOGLE_ADS] for DevToken, [OAUTH2] for the other keys.
C22_OwnSectionOnly ==
    \A k \in Rewrites :
        rw.lang = "php" =>
            \A j \in 1..Len(Out(k)) :
                Out(k)[j] = NewLine =>
                    /\ j > 1
                    /\ ~HasPrefix(TrimSpace(Out(k)[j - 1]), LeftMeta)
                    /\ Contains(Out(k)[j - 1], Section)

\* C23: in the dialects read by ParseKeyValueFile (java, php, python, ruby),
\* parsing the output of a rewrite gives the new value for the key.
C23_ParsesBack ==
    \A k \in Rewrites :
        rw.lang # "dotnet" =>
            ParseKeyValueFile(rw.lang, rw.key, rw.texts[k + 1]) = << rw.value >>

PromptClientID == Stdout("New Client ID >> ")
PromptClientSecret == Stdout("New Client Secret >> ")
PromptDevToken == Stdout("New Developer Token >> ")

\* Whether the dialog asked for the value, and the line the operator
\* entered at the prompt (the last time it was shown).
Prompted(prompt) == \E i \in DOMAIN out : out[i] = prompt
Entered(prompt) ==
    out[(CHOOSE i \in DOMAIN out :
            out[i] = prompt /\ \A j \in DOMAIN out : out[j] = prompt => j <= i) + 1].v

\* C24: once a credential dialog of diagnose is through (no ReplaceConfig
\* call ended the run), the in-memory ClientID and ClientSecret are the two
\* lines entered, resp. the in-memory DevToken is the line entered, and the
\* file holds their assignments; and the retry of the installed-app flow
\* makes its connection with the in-memory values of that moment, the
\* entered ones, in the client and in the developer-token header.
C24_RetryUsesEnteredValues ==
    pc # "fatal_config" =>
        /\ Prompted(PromptClientSecret) =>
              /\ keys.ClientID = Entered(PromptClientID)
              /\ keys.ClientSecret = Entered(PromptClientSecret)
              /\ Contains(file.text, configLineStr(lang, ClientID, keys.ClientID))
              /\ Contains(file.text, configLineStr(lang, ClientSecret, keys.ClientSecret))
        /\ Prompted(PromptDevToken) =>
              /\ keys.DevToken = Entered(PromptDevToken)
              /\ Contains(file.text, configLineStr(lang, DevToken, keys.DevToken))
        /\ (oauthType = InstalledApp /\ strategy = "retry" /\ attempt = 2) =>
              /\ Len(requests) = 2
              /\ requests[2].via = << "refresh_token", keys.ClientID, keys.ClientSecret,
                                      keys.RefreshToken >>
              /\ requests[2].devToken = keys.DevToken

\* C24 witness: the first attempt was made with the old client ID and
\* secret, the operator entered new ones, and the retry of the
\* installed-app flow was made with the new ones.
C24_Witness ==
    /\ oauthType = InstalledApp /\ strategy = "retry" /\ attempt = 2
    /\ pc = "app_report"
    /\ Len(requests) = 2
    /\ requests[1].via[2] = InitClientID /\ requests[1].via[3] = InitClientSecret
    /\ Prompted(PromptClientSecret)
    /\ Entered(PromptClientID) = "new-id.apps.googleusercontent.com"
    /\ Entered(PromptClientSecret) = "new-id.apps.googleusercontent.com"
    /\ requests[2].via[2] = "new-id.apps.googleusercontent.com"
    /\ requests[2].via[3] = "new-id.apps.googleusercontent.com"

\* The keys a diagnose call for kind k may change.
Dialog(k) ==
    CASE k = InvalidClientInfo -> {ClientID, ClientSecret}
      [] k = MissingDevToken -> {DevToken}
      [] OTHER -> {}

\* C25: a diagnose call makes no connection attempt and no request, mints
\* no token and leaves the flow's refresh token, code and customer ID as
\* they are; of the in-memory keys it changes at most ClientID and
\* ClientSecret for InvalidClientInfo and at most DevToken for
\* MissingDevToken; for every other kind the keys, the config file and the
\* backups are left as they are.
C25_Step ==
    diagnoses' # diagnoses =>
        /\ attempt' = attempt
        /\ requests' = requests
        /\ minted' = minted
        /\ refreshToken' = refreshToken
        /\ code' = code
        /\ customerID' = customerID
        /\ \A f \in DOMAIN keys : f \notin Dialog(decodeError(err[1])) => keys'[f] = keys[f]
        /\ Dialog(decodeError(err[1])) = {} => file' = file /\ backups' = backups

C25_DiagnoseFrame == [][C25_Step]_vars

\* C25 witness: diagnose has handled MissingDevToken; the developer token
\* is a new one, the other keys are the old ones.
C25_Witness ==
    /\ diagnoses = 1
    /\ decodeError(err[1]) = MissingDevToken
    /\ keys.DevToken = "new-id.apps.googleusercontent.com"
    /\ keys.ClientID = InitClientID /\ keys.ClientSecret = InitClientSecret
    /\ pc \notin {"panic_diagnose", "fatal_config"}

\* A step in which the handler of request i, a request without a code,
\* comes to its end.
C26_Step ==
    \A i \in 1..MaxRequests :
        (handlers[i].st = "running" /\ handlers[i].code = ""
         /\ handlers'[i].st # "running") =>
            /\ handlers'[i].st = "done"
            /\ sent' = sent /\ received' = received /\ code' = code
            /\ out' = out
            /\ pc' = pc
            /\ srv' = srv /\ registered' = registered

\* C26: the handler of a callback request without a code (or with an empty
\* one) ends without a send on the channel, without a log line and without
\* an acknowledgement; the foreground stays where it is (at the receive,
\* when it waits there) and the listener stays as it is (listening, when
\* it was), so a later request is taken; such a handler is never at the
\* send or past it.
C26_NoCodeIgnored ==
    /\ [](\A i \in 1..MaxRequests :
             handlers[i].code = "" => handlers[i].st \in {"none", "running", "done"})
    /\ [][C26_Step]_vars

\* C26 witness: a request without a code has been handled while the
\* foreground waits at the receive: nothing was sent or logged, the
\* listener is up, and a later request with a code is being handled.
C26_Witness ==
    /\ pc = "web_recv" /\ srv = "listening"
    /\ handlers[1] = [st |-> "done", code |-> ""]
    /\ handlers[2].st = "sending" /\ handlers[2].code # ""
    /\ sent = << >>
    /\ Last(out) = Log(MsgRunServer)

\* The handler of request i holds a code it has not sent, and the
\* foreground has this attempt's code already.
Stuck(i) ==
    /\ handlers[i].st \in {"running", "sending"}
    /\ handlers[i].code # ""
    /\ pc \in {"web_shutdown", "web_shutdown_wait"}

\* C27: a request with a code that is being handled when the foreground
\* has received this attempt's code stays so for ever: its send never
\* completes, srv.Shutdown never returns (the listener is never closed),
\* and the flow never comes to its report.
C27_DuplicateBlocksForever ==
    [][\A i \in 1..MaxRequests :
          Stuck(i) => /\ Stuck(i)'
                      /\ srv' # "closed"
                      /\ pc' \notin {"web_exchange", "web_close", "web_report", "done"}
                      /\ sent' = sent]_vars

\* C27 witness: the first request's code was received and acknowledged; a
\* second request with a code is at its send while srv.Shutdown waits.
C27_Witness ==
    /\ pc = "web_shutdown_wait" /\ srv = "closing"
    /\ handlers[1].st = "done" /\ handlers[1].code # ""
    /\ Stuck(2) /\ handlers[2].st = "sending"
    /\ Len(sent) = 1

\* C28: once simulateWebFlow has closed the channel, no handler is at its
\* send or about to reach it, no request is taken any more, and no send
\* completes.
C28_NoSendAfterClose ==
    /\ [](chClosed =>
             /\ \A i \in 1..MaxRequests : handlers[i].st \in {"none", "done"}
             /\ srv = "closed")
    /\ [][chClosed => sent' = sent /\ handlers' = handlers]_vars

\* C28 witness: the channel is closed after a retry; both attempts got
\* their code, and a request without a code came in between.
C28_Witness ==
    /\ chClosed
    /\ attempt = 2
    /\ Len(sent) = 2
    /\ \A i \in 1..MaxRequests : handlers[i].st = "done"

\* Every answer a connection of the model can get, the bodies of the
\* answers, and the errors getAccount makes of them.
Responses == ApiResponses \cup {Transport(e) : e \in TokenErrors \cup {ErrTokenNotSet}}
Payloads == {r.body : r \in {x \in Responses : x.k = "http"}}
RawErrors ==
    {getAccount(p[1], p[2]).err[1] :
        p \in {q \in Responses \X {"1234567890", "9876543210"} :
                  getAccount(q[1], q[2]).err # NoErr}}

C30_ReturnsUsableID ==
    /\ rd.asked = Len(rd.lines)
    /\ \A i \in 1..(Len(rd.lines) - 1) : readStdin(rd.lines[i]) = ""
    /\ rd.ret # << >> =>
          /\ readStdin(rd.lines[Len(rd.lines)]) # ""
          /\ rd.ret[1] = RemoveAll(readStdin(rd.lines[Len(rd.lines)]), "-")
          /\ rd.ret[1] # ""
          /\ ~Contains(rd.ret[1], "-")

====
